---- MODULE Spec2Model ----
(***************************************************************************)
(* CRRMonitor: correlation of S3 cross-region-replication events           *)
(* (source/CRRMonitor/CRRMonitor.py).                                       *)
(*                                                                         *)
(* message_handler merges one CloudTrail PutObject event into the          *)
(* DynamoDB correlation record of the object version, log_statistics adds  *)
(* a sample to a 5-minute statistics bucket, queue_handler spawns helper   *)
(* lambdas and drains the SQS queue.                                       *)
(*                                                                         *)
(* Timestamps are the strings 'YYYY-mm-ddTHH:MM:SSZ' of the source; here a *)
(* timestamp is the tuple <<day, hour, minute, second>> and strptime /     *)
(* strftime convert between it and a number of seconds.                    *)
(***************************************************************************)
EXTENDS Integers, Sequences, FiniteSets, TLC

VARIABLES
    ddbtable,    \* correlation table: ETag key -> item (attribute -> value)
    stattable,   \* statistics table: statbucket key -> item
    initfail,    \* per lambda process: source bucket -> last initialised timebucket
    result,      \* what the last message_handler call did (event, rc / raise)
    obj,         \* the object versions whose events are delivered
    ndeliv,      \* number of message_handler calls so far
    nelapsed,    \* per key: number of record updates that wrote 'elapsed'
    handled,     \* per key: the kinds of event handled without a store failure
    incs,        \* SpecStats: the log_statistics calls to be made
    applied,     \* SpecStats: the calls whose first update_item succeeded
    call,        \* the last log_statistics call made directly (SpecStats, SpecRound)
    workers,     \* SpecScale: the queue_handler invocations started, in start order
    invoked,     \* SpecScale: events of the asynchronous invocations in flight
    nstarted,    \* SpecScale: number of queue_handler invocations ever started
    queue,       \* SpecDrain: the SQS messages, each with its body and its state
    drain,       \* SpecDrain: the drain loop of the queue_handler invocation
    delreq,      \* SpecDrain: ids of messages named in a delete_message_batch call
    nreq,        \* SpecDrain: number of entries given to delete_message_batch so far
    metric,      \* SpecDrain: the send_anonymous_usage_metric calls made
    SEND_ANONYMOUS_USAGE_METRIC,  \* SpecDrain: the flag of the deployment
    inflight,    \* SpecConc: per process, the message_handler call past get_item
    sweep,       \* SpecSweep: the run of the hourly maintenance lambda_handler
    flush,       \* SpecFlush: the run of the housekeeping lambda_handler
    cw           \* SpecFlush: the data put_metric_data has sent to CloudWatch

corrVars == <<ddbtable, result, obj, ndeliv, nelapsed, handled>>
statVars == <<stattable, initfail>>
incVars  == <<incs, applied, call>>
scaleVars == <<workers, invoked, nstarted>>
drainVars == <<queue, drain, delreq, nreq, metric, SEND_ANONYMOUS_USAGE_METRIC>>
concVars == <<inflight>>
maintVars == <<sweep, flush, cw>>
vars == <<ddbtable, stattable, initfail, result, obj, ndeliv, nelapsed, handled,
          incs, applied, call, workers, invoked, nstarted,
          queue, drain, delreq, nreq, metric, SEND_ANONYMOUS_USAGE_METRIC, inflight,
          sweep, flush, cw>>

(***************************************************************************)
(* Bounds of the model.                                                    *)
(***************************************************************************)
MaxDeliveries == 3      \* message_handler calls in one behaviour
NumIncs == 3            \* log_statistics calls in one SpecStats behaviour

(***************************************************************************)
(* Configuration (CRRMonitor.py, 'Configuration').                         *)
(***************************************************************************)
purge_thresh == 24      \* hours to keep records of completed transfers
maxtask == 100          \* getparm('maxtask', 1800), set as in the example of the spec
maxspawn == 3           \* getparm('maxspawn', 20), set as in the example of the spec
StatRoundTo == 300      \* the roundTo message_handler passes to log_statistics

Procs == {1, 2}         \* lambda processes (each has its own initfail dict)

(***************************************************************************)
(* datetime.strptime(s, timefmt), as seconds since day 0, 00:00:00.        *)
(***************************************************************************)
strptime(ts) == ((ts[1] * 24 + ts[2]) * 60 + ts[3]) * 60 + ts[4]

(***************************************************************************)
(* datetime.strftime(t, timefmt).                                          *)
(***************************************************************************)
strftime(n) == <<n \div 86400, (n % 86400) \div 3600, (n % 3600) \div 60, n % 60>>

(***************************************************************************)
(* rounding = (secs+roundTo/2) // roundTo * roundTo.  roundTo/2 is a float *)
(* division, so for odd roundTo the half is kept: floor((secs + r/2) / r)  *)
(* = floor((2*secs + r) / (2*r)).                                          *)
(***************************************************************************)
rounding_TieDown(secs, roundTo) == ((2 * secs + roundTo - 1) \div (2 * roundTo)) * roundTo

rounding_Floor(secs, roundTo) == (secs \div roundTo) * roundTo

rounding(secs, roundTo) == ((2 * secs + roundTo) \div (2 * roundTo)) * roundTo

(***************************************************************************)
(* The timebucket of log_statistics: the timestamp moved by                *)
(* rounding - secs, where secs is the offset of the timestamp in its day.  *)
(***************************************************************************)
timebucket(Tstamp, roundTo) ==
    LET ts == strptime(Tstamp)
        secs == ts % 86400
    IN  strftime(ts + (rounding(secs, roundTo) - secs))

(***************************************************************************)
(* statbucket = Src + ':' + Dst + ':' + timebucket, kept as a triple.      *)
(***************************************************************************)
statbucket(Src, Dst, tb) == <<Src, Dst, tb>>

NoItems == [k \in {} |-> 0]
foo == <<"foo">>

(***************************************************************************)
(* DynamoDB update_item on the statistics table with                       *)
(* 'SET timebucket = :t, source_bucket = :o, dest_bucket = :r              *)
(*  ADD objects :a, size :c, elapsed :d': ADD creates the item or the      *)
(* attribute at 0 and adds atomically.                                     *)
(***************************************************************************)
StatOld(tbl, key, attr) == IF key \in DOMAIN tbl THEN tbl[key][attr] ELSE 0

StatUpdateItem_Set(tbl, key, t, o, r, a, c, d) ==
    [k \in DOMAIN tbl \cup {key} |->
        IF k = key
        THEN [timebucket |-> t, source_bucket |-> o, dest_bucket |-> r,
              objects |-> a, size |-> c, elapsed |-> d]
        ELSE tbl[k]]

StatUpdateItem(tbl, key, t, o, r, a, c, d) ==
    [k \in DOMAIN tbl \cup {key} |->
        IF k = key
        THEN [timebucket |-> t, source_bucket |-> o, dest_bucket |-> r,
              objects |-> StatOld(tbl, key, "objects") + a,
              size    |-> StatOld(tbl, key, "size") + c,
              elapsed |-> StatOld(tbl, key, "elapsed") + d]
        ELSE tbl[k]]

(***************************************************************************)
(* initfail as log_statistics leaves it before the FAILED test:            *)
(* 'if not Src in initfail: initfail[Src] = "foo"'.                        *)
(***************************************************************************)
MemoTouch(memo, Src) ==
    [s \in DOMAIN memo \cup {Src} |-> IF s \in DOMAIN memo THEN memo[s] ELSE foo]

MemoSet(memo, Src, tb) ==
    [s \in DOMAIN memo \cup {Src} |-> IF s = Src THEN tb ELSE memo[s]]

(***************************************************************************)
(* Does log_statistics write the zero FAILED bucket of Src?                *)
(***************************************************************************)
NeedsInit(memo, Src, Dst, tb) == Dst /= "FAILED" /\ MemoTouch(memo, Src)[Src] /= tb

(***************************************************************************)
(* The outcomes of one log_statistics call: "ok", "stat_raise" (the first  *)
(* update_item raises), "init_raise" (the update_item of the FAILED bucket *)
(* raises; only when that update is made).                                 *)
(***************************************************************************)
StatOutcomes(memo, Src, Dst, Tstamp, roundTo) ==
    {"ok", "stat_raise"} \cup
    (IF NeedsInit(memo, Src, Dst, timebucket(Tstamp, roundTo)) THEN {"init_raise"} ELSE {})

(***************************************************************************)
(* log_statistics(Src, Dst, Tstamp, Size, ET, roundTo) of a process whose  *)
(* initfail is memo, on the statistics table tbl.                          *)
(***************************************************************************)
log_statistics(tbl, memo, Src, Dst, Tstamp, Size, ET, roundTo, oc) ==
    LET tb   == timebucket(Tstamp, roundTo)
        tbl1 == StatUpdateItem(tbl, statbucket(Src, Dst, tb), tb, Src, Dst, 1, Size, ET)
        memo1 == MemoTouch(memo, Src)
        tbl2 == StatUpdateItem(tbl1, statbucket(Src, "FAILED", tb), tb, Src, "FAILED", 0, 1, 1)
    IN  IF oc = "stat_raise"
        THEN [tbl |-> tbl, memo |-> memo, raised |-> TRUE]
        ELSE IF ~NeedsInit(memo, Src, Dst, tb)
        THEN [tbl |-> tbl1, memo |-> memo1, raised |-> FALSE]
        ELSE IF oc = "init_raise"
        THEN [tbl |-> tbl1, memo |-> memo1, raised |-> TRUE]
        ELSE [tbl |-> tbl2, memo |-> MemoSet(memo1, Src, tb), raised |-> FALSE]

(***************************************************************************)
(* The object versions and their CloudTrail events.  A version is written  *)
(* once in the source bucket (eventTime srcTime) and once in the replica   *)
(* bucket (eventTime repTime); head_object returns its size and its        *)
(* etag/version-id, which form the key 'ETag:VersionId' of its record.     *)
(***************************************************************************)
Keys == {"e1:v1"}
SrcBucket == "src"
RepBucket == "rep"

SrcTimes == {<<1, 0, 0, 0>>, <<1, 0, 7, 32>>}
RepTimes == {<<1, 0, 0, 10>>, <<1, 0, 7, 31>>, <<1, 0, 2, 29>>, <<1, 0, 7, 32>>}
Sizes == {800}

Versions == [name : {"a.txt"}, size : Sizes, srcTime : SrcTimes, repTime : RepTimes]

SourceEvent(k) ==
    [eventName |-> "PutObject", bucket |-> SrcBucket, key |-> obj[k].name,
     eventTime |-> obj[k].srcTime, etag |-> k]
ReplicaEvent(k) ==
    [eventName |-> "PutObject", bucket |-> RepBucket, key |-> obj[k].name,
     eventTime |-> obj[k].repTime, etag |-> k]
OtherEvent(k) ==
    [eventName |-> "DeleteObject", bucket |-> SrcBucket, key |-> obj[k].name,
     eventTime |-> obj[k].srcTime, etag |-> k]

Events == {SourceEvent(k) : k \in Keys} \cup {ReplicaEvent(k) : k \in Keys}
            \cup {OtherEvent(k) : k \in Keys}

(***************************************************************************)
(* The results of the head_object probe: the HTTP code ("exc" is an        *)
(* exception that is not a ClientError) and, on 200, the                   *)
(* x-amz-replication-status header ("none" when the header is absent).     *)
(***************************************************************************)
HeadCodes == {"200", "403", "404", "500", "exc"}
SourceStatuses == {"COMPLETED", "FAILED", "PENDING"}
HeadStatuses(ev) ==
    IF ev.bucket = RepBucket THEN {"REPLICA", "none"}
    ELSE SourceStatuses \cup {"OTHER", "none"}

(***************************************************************************)
(* purge.strftime('%s') of purge = strptime(t) - timedelta(hours=          *)
(* purge_thresh): seconds, counted from the same origin as strptime.       *)
(***************************************************************************)
itemttl_Forward(t) == strptime(t) + purge_thresh * 3600

itemttl(t) == strptime(t) - purge_thresh * 3600

(***************************************************************************)
(* etime = end - start; etimesecs = etime.days*24*60*60 + etime.seconds:   *)
(* the signed difference in seconds.                                       *)
(***************************************************************************)
etimesecs_Abs(end, start) ==
    IF strptime(end) >= strptime(start) THEN strptime(end) - strptime(start)
    ELSE strptime(start) - strptime(end)

etimesecs(end, start) == strptime(end) - strptime(start)

(***************************************************************************)
(* crr_rate = int(objsize) * 8 / (etimesecs + 1): a float quotient, kept   *)
(* as <<numerator, denominator>>.  The division raises when etimesecs = -1.*)
(***************************************************************************)
crr_rate(objsize, et) == <<objsize * 8, et + 1>>
DivisionRaises(et) == et + 1 = 0

(***************************************************************************)
(* message_handler, REPLICA branch: the attributes of the update           *)
(* expression and the log_statistics call, from the record read (item).    *)
(***************************************************************************)
ReplicaBase_WritesStart(ev, objsize) ==
    [s3Object |-> ev.key, ObjectSize |-> objsize, s3Replica |-> ev.bucket,
     start_datetime |-> ev.eventTime,
     end_datetime |-> ev.eventTime, itemttl |-> itemttl(ev.eventTime),
     replication_status |-> "COMPLETED"]

ReplicaBase(ev, objsize) ==
    [s3Object |-> ev.key, ObjectSize |-> objsize, s3Replica |-> ev.bucket,
     end_datetime |-> ev.eventTime, itemttl |-> itemttl(ev.eventTime),
     replication_status |-> "COMPLETED"]

ReplicaComputes_NoRateTest(item) == "start_datetime" \in DOMAIN item

ReplicaComputes(item) ==
    "start_datetime" \in DOMAIN item /\ "crr_rate" \notin DOMAIN item

ReplicaBranch(item, ev, objsize) ==
    IF ReplicaComputes(item)
    THEN LET et == etimesecs(ev.eventTime, item.start_datetime)
         IN  IF DivisionRaises(et)
             THEN [raises |-> TRUE, attrs |-> NoItems, stat |-> <<>>]
             ELSE [raises |-> FALSE,
                   attrs |-> [crr_rate |-> crr_rate(objsize, et), elapsed |-> et]
                               @@ ReplicaBase(ev, objsize),
                   stat |-> <<[Src |-> item.s3Origin, Dst |-> ev.bucket,
                               Tstamp |-> item.start_datetime,
                               Size |-> objsize, ET |-> et]>>]
    ELSE [raises |-> FALSE, attrs |-> ReplicaBase(ev, objsize), stat |-> <<>>]

(***************************************************************************)
(* message_handler, SOURCE branch.                                         *)
(***************************************************************************)
FailedSample_NoElapsed(ev) ==
    [Src |-> ev.bucket, Dst |-> "FAILED", Tstamp |-> ev.eventTime, Size |-> 0, ET |-> 0]

FailedSample(ev) ==
    [Src |-> ev.bucket, Dst |-> "FAILED", Tstamp |-> ev.eventTime, Size |-> 0, ET |-> 1]

SourceBase(ev, objsize) ==
    [s3Object |-> ev.key, ObjectSize |-> objsize, s3Origin |-> ev.bucket,
     start_datetime |-> ev.eventTime]

SourceComputes_NoRateTest(item) == "end_datetime" \in DOMAIN item

SourceComputes(item) ==
    "end_datetime" \in DOMAIN item /\ "crr_rate" \notin DOMAIN item

(***************************************************************************)
(* 'if repstatus == COMPLETED or repstatus == FAILED or repstatus ==       *)
(* PENDING: ... else: raise Exception(Unknown Replication Status)'.        *)
(***************************************************************************)
KnownStatus_Any(repstatus) == TRUE

KnownStatus(repstatus) == repstatus \in SourceStatuses

SourceBranch(item, ev, repstatus, objsize) ==
    IF ~KnownStatus(repstatus)
    THEN [raises |-> TRUE, attrs |-> NoItems, stat |-> <<>>]
    ELSE IF SourceComputes(item)
    THEN LET et == etimesecs(item.end_datetime, ev.eventTime)
         IN  IF DivisionRaises(et)
             THEN [raises |-> TRUE, attrs |-> NoItems, stat |-> <<>>]
             ELSE [raises |-> FALSE,
                   attrs |-> [crr_rate |-> crr_rate(objsize, et),
                              itemttl |-> itemttl(item.end_datetime),
                              elapsed |-> et] @@ SourceBase(ev, objsize),
                   stat |-> <<[Src |-> ev.bucket, Dst |-> item.s3Replica,
                               Tstamp |-> item.end_datetime,
                               Size |-> objsize, ET |-> et]>>]
    ELSE IF repstatus = "FAILED"
    THEN [raises |-> FALSE,
          attrs |-> [replication_status |-> "FAILED"] @@ SourceBase(ev, objsize),
          stat |-> <<FailedSample(ev)>>]
    ELSE [raises |-> FALSE, attrs |-> SourceBase(ev, objsize), stat |-> <<>>]

(***************************************************************************)
(* The merge of one event into the record read: which attributes           *)
(* update_item sets, which sample goes to log_statistics, or a raise.      *)
(***************************************************************************)
Merge(item, ev, repstatus, objsize) ==
    IF repstatus = "REPLICA"
    THEN ReplicaBranch(item, ev, objsize)
    ELSE SourceBranch(item, ev, repstatus, objsize)

(***************************************************************************)
(* DynamoDB get_item and update_item ('set a = :a, ...') on the            *)
(* correlation table: update_item creates the item or sets only the named  *)
(* attributes.                                                             *)
(***************************************************************************)
GetItem(tbl, key) == IF key \in DOMAIN tbl THEN tbl[key] ELSE NoItems

UpdateItem_Put(tbl, key, attrs) ==
    [k \in DOMAIN tbl \cup {key} |-> IF k = key THEN attrs ELSE tbl[k]]

UpdateItem_DropsCompleted(tbl, key, attrs) ==
    IF "crr_rate" \in DOMAIN attrs
    THEN [k \in DOMAIN tbl \ {key} |-> tbl[k]]
    ELSE [k \in DOMAIN tbl \cup {key} |-> IF k = key THEN attrs @@ GetItem(tbl, key) ELSE tbl[k]]

UpdateItem(tbl, key, attrs) ==
    [k \in DOMAIN tbl \cup {key} |-> IF k = key THEN attrs @@ GetItem(tbl, key) ELSE tbl[k]]

(***************************************************************************)
(* Is the event dropped before any table is touched?  Not a PutObject,     *)
(* head_object failed, or no x-amz-replication-status header.              *)
(***************************************************************************)
Ignored_Only404(ev, head, repstatus) ==
    ev.eventName /= "PutObject" \/ head = "404" \/ (head = "200" /\ repstatus = "none")

Ignored(ev, head, repstatus) ==
    ev.eventName /= "PutObject" \/ head /= "200" \/ repstatus = "none"

(***************************************************************************)
(* The store outcomes one message_handler call can meet: "ok",             *)
(* "describe_raise", "get_raise", the raises of log_statistics when it is  *)
(* called, "update_raise" when update_item is reached.                     *)
(***************************************************************************)
WriteOutcomes(p, item, ev, repstatus) ==
    LET m == Merge(item, ev, repstatus, obj[ev.etag].size)
    IN  {"ok"} \cup
        (IF m.raises THEN {}
         ELSE {"update_raise"} \cup
              (IF m.stat = <<>> THEN {}
               ELSE StatOutcomes(initfail[p], m.stat[1].Src, m.stat[1].Dst,
                                 m.stat[1].Tstamp, StatRoundTo)))

HandlerOutcomes(p, ev, head, repstatus) ==
    IF Ignored(ev, head, repstatus) THEN {"ok"}
    ELSE {"describe_raise", "get_raise"} \cup
         WriteOutcomes(p, GetItem(ddbtable, ev.etag), ev, repstatus)

(***************************************************************************)
(* The kind of an event, by the replication status of its object.          *)
(***************************************************************************)
EventKind(repstatus) ==
    IF repstatus = "REPLICA" THEN {"replica"}
    ELSE IF repstatus = "FAILED" THEN {"failed"}
    ELSE IF repstatus \in SourceStatuses THEN {"source"}
    ELSE {}

(***************************************************************************)
(* message_handler(event) run by process p, from the point where get_item  *)
(* has returned item (or the event was dropped, or describe_table or       *)
(* get_item raised): head is the result of head_object, repstatus its      *)
(* replication-status header, oc the store outcome.                        *)
(***************************************************************************)
AfterGetItem(p, item, ev, head, repstatus, oc) ==
    LET key  == ev.etag
        m    == Merge(item, ev, repstatus, obj[key].size)
        s    == m.stat[1]
        ls   == log_statistics(stattable, initfail[p], s.Src, s.Dst, s.Tstamp,
                               s.Size, s.ET, StatRoundTo, oc)
        res(rc) == [ev |-> ev, head |-> head, repstatus |-> repstatus,
                    oc |-> oc, rc |-> rc,
                    ddbitem |-> IF Ignored(ev, head, repstatus) THEN NoItems ELSE item]
    IN  /\ handled' = IF Ignored(ev, head, repstatus) \/ oc /= "ok"
                      THEN handled
                      ELSE [handled EXCEPT ![key] = @ \cup EventKind(repstatus)]
        /\ IF Ignored(ev, head, repstatus)
           THEN /\ result' = res("return")
                /\ UNCHANGED <<ddbtable, stattable, initfail, nelapsed>>
           ELSE IF oc \in {"describe_raise", "get_raise"} \/ m.raises
           THEN /\ result' = res("raise")
                /\ UNCHANGED <<ddbtable, stattable, initfail, nelapsed>>
           ELSE /\ IF m.stat = <<>>
                   THEN UNCHANGED <<stattable, initfail>>
                   ELSE /\ stattable' = ls.tbl
                        /\ initfail' = [initfail EXCEPT ![p] = ls.memo]
                /\ IF oc = "update_raise" \/ (m.stat /= <<>> /\ ls.raised)
                   THEN /\ result' = res("raise")
                        /\ UNCHANGED <<ddbtable, nelapsed>>
                   ELSE /\ result' = res("return")
                        /\ ddbtable' = UpdateItem(ddbtable, key, m.attrs)
                        /\ nelapsed' = [nelapsed EXCEPT ![key] =
                               @ + (IF "elapsed" \in DOMAIN m.attrs THEN 1 ELSE 0)]

(***************************************************************************)
(* message_handler(event) run by process p with no other call in between:  *)
(* the item is the one get_item reads from the table as it is now.         *)
(***************************************************************************)
message_handler(p, ev, head, repstatus, oc) ==
    /\ oc \in HandlerOutcomes(p, ev, head, repstatus)
    /\ AfterGetItem(p, GetItem(ddbtable, ev.etag), ev, head, repstatus, oc)

NoResult == [rc |-> "none"]


(***************************************************************************)
(* One delivery of an event to message_handler.                            *)
(***************************************************************************)
Deliver ==
    /\ ndeliv < MaxDeliveries
    /\ \E p \in Procs, ev \in Events, head \in HeadCodes :
         \E repstatus \in HeadStatuses(ev) :
           /\ head /= "200" => repstatus = "none"
           /\ ev.eventName /= "PutObject" => head = "200" /\ repstatus = "none"
           /\ \E oc \in HandlerOutcomes(p, ev, head, repstatus) :
                message_handler(p, ev, head, repstatus, oc)
    /\ ndeliv' = ndeliv + 1
    /\ UNCHANGED <<obj, incs, applied, call, workers, invoked, nstarted>>
    /\ UNCHANGED <<drainVars, concVars>>
    /\ UNCHANGED maintVars

(***************************************************************************)
(* The state after the module is loaded: empty tables, empty initfail, no  *)
(* call made yet.                                                          *)
(***************************************************************************)
NoDrain == [pc |-> "none"]
NoCall == [pc |-> "idle"]

NoQueue ==
    /\ queue = <<>>
    /\ drain = NoDrain
    /\ delreq = {}
    /\ nreq = 0
    /\ metric = <<>>
    /\ SEND_ANONYMOUS_USAGE_METRIC = FALSE

NoCalls == inflight = [p \in Procs |-> NoCall]

NoRun == [pc |-> "none"]
NoMaint ==
    /\ sweep = NoRun
    /\ flush = NoRun
    /\ cw = <<>>

InitTables ==
    /\ ddbtable = NoItems
    /\ stattable = NoItems
    /\ initfail = [p \in Procs |-> NoItems]
    /\ result = NoResult
    /\ ndeliv = 0
    /\ nelapsed = [k \in Keys |-> 0]
    /\ handled = [k \in Keys |-> {}]
    /\ applied = {}
    /\ call = <<>>
    /\ workers = <<>>
    /\ nstarted = 0

TheVersion == [name |-> "a.txt", size |-> 800, srcTime |-> <<1, 0, 0, 0>>,
               repTime |-> <<1, 0, 0, 10>>]

(***************************************************************************)
(* Spec: the events of one object version are delivered to                 *)
(* message_handler, one call after the other, in any order, any number of  *)
(* times.                                                                  *)
(***************************************************************************)
Init ==
    /\ InitTables
    /\ NoQueue
    /\ NoCalls
    /\ obj \in [Keys -> Versions]
    /\ incs = <<>>
    /\ invoked = {}
    /\ NoMaint

Next == Deliver

Spec == Init /\ [][Next]_vars

(***************************************************************************)
(* SpecStats: NumIncs samples are given to log_statistics, each by one of  *)
(* the lambda processes, in any order.                                     *)
(***************************************************************************)
Samples ==
    {[Dst |-> RepBucket, Tstamp |-> <<1, 0, 7, 32>>, Size |-> 800, ET |-> 10],
     [Dst |-> RepBucket, Tstamp |-> <<1, 0, 2, 29>>, Size |-> 5, ET |-> -3],
     [Dst |-> "FAILED", Tstamp |-> <<1, 0, 7, 32>>, Size |-> 0, ET |-> 1]}

IncChoices == {[proc |-> p, Src |-> SrcBucket, Dst |-> x.Dst, Tstamp |-> x.Tstamp,
                Size |-> x.Size, ET |-> x.ET] : p \in Procs, x \in Samples}

LogStatisticsCall(p, Src, Dst, Tstamp, Size, ET, roundTo, oc) ==
    LET ls == log_statistics(stattable, initfail[p], Src, Dst, Tstamp, Size, ET, roundTo, oc)
    IN  /\ oc \in StatOutcomes(initfail[p], Src, Dst, Tstamp, roundTo)
        /\ stattable' = ls.tbl
        /\ initfail' = [initfail EXCEPT ![p] = ls.memo]
        /\ call' = [proc |-> p, Src |-> Src, Dst |-> Dst, Tstamp |-> Tstamp,
                    Size |-> Size, ET |-> ET, roundTo |-> roundTo, oc |-> oc]

LogSample ==
    /\ \E i \in DOMAIN incs \ applied :
         \E oc \in {"ok", "stat_raise", "init_raise"} :
           /\ LogStatisticsCall(incs[i].proc, incs[i].Src, incs[i].Dst, incs[i].Tstamp,
                                incs[i].Size, incs[i].ET, StatRoundTo, oc)
           /\ applied' = IF oc = "stat_raise" THEN applied ELSE applied \cup {i}
    /\ UNCHANGED <<ddbtable, result, obj, ndeliv, nelapsed, handled, incs>>
    /\ UNCHANGED <<scaleVars, drainVars, concVars>>
    /\ UNCHANGED maintVars

InitStats ==
    /\ InitTables
    /\ NoQueue
    /\ NoCalls
    /\ obj = [k \in Keys |-> TheVersion]
    /\ incs \in [1..NumIncs -> IncChoices]
    /\ invoked = {}
    /\ NoMaint

NextStats == LogSample

SpecStats == InitStats /\ [][NextStats]_vars

(***************************************************************************)
(* SpecRound: log_statistics is called once, with any timestamp and bucket *)
(* width.                                                                  *)
(***************************************************************************)
RoundTstamps ==
    {<<1, h, m, sec>> : h \in {0, 23}, m \in {0, 2, 5, 7, 57, 59},
                        sec \in {0, 29, 30, 31, 32, 59}}
RoundWidths == {300, 60, 7}

RoundOnce ==
    /\ call = <<>>
    /\ \E Tstamp \in RoundTstamps, roundTo \in RoundWidths :
         LogStatisticsCall(1, SrcBucket, RepBucket, Tstamp, 800, 10, roundTo, "ok")
    /\ UNCHANGED <<ddbtable, result, obj, ndeliv, nelapsed, handled, incs, applied>>
    /\ UNCHANGED <<scaleVars, drainVars, concVars>>
    /\ UNCHANGED maintVars

InitRound ==
    /\ InitTables
    /\ NoQueue
    /\ NoCalls
    /\ obj = [k \in Keys |-> TheVersion]
    /\ incs = <<>>
    /\ invoked = {}
    /\ NoMaint

NextRound == RoundOnce

SpecRound == InitRound /\ [][NextRound]_vars

(***************************************************************************)
(* SpecScale: queue_handler.  A root invocation (no child-number, cnum 0)  *)
(* is in flight; every invocation reads the queue depth, may invoke one    *)
(* child, then drains the queue.  ApproximateNumberOfMessages is whatever  *)
(* SQS reports at that moment; the queue itself is empty here, so the      *)
(* priming receive_message returns no 'Messages'.                          *)
(***************************************************************************)
Depths == {0, 100, 101, 201, 250, 301, 401, 1000}
HttpStatuses == {200, 500}

(***************************************************************************)
(* The event of an invocation: the scheduled event for the root, the       *)
(* event passed on with 'child-number' for a child.                        *)
(* 'cnum = 0; if child-number in event: cnum = int(event[child-number])'.  *)
(***************************************************************************)
RootEvents == {[source |-> "aws.events"],
               [source |-> "aws.events", account |-> "123456789012"]}

ChildNumber(event) ==
    IF "child-number" \in DOMAIN event THEN event["child-number"] ELSE 0

(***************************************************************************)
(* 'event[child-number] = cnum + 1' and Payload=json.dumps(event).         *)
(***************************************************************************)
ChildEvent_OnlyNumber(event, cnum) == "child-number" :> (cnum + 1)

ChildEvent_SameNumber(event, cnum) ==
    [f \in DOMAIN event \cup {"child-number"} |->
        IF f = "child-number" THEN cnum ELSE event[f]]

ChildEvent(event, cnum) ==
    [f \in DOMAIN event \cup {"child-number"} |->
        IF f = "child-number" THEN cnum + 1 ELSE event[f]]

(***************************************************************************)
(* 'if queue_backlog > maxtask: if cnum < maxspawn:' - does invocation     *)
(* cnum, seeing queue_sz messages, invoke a child?                         *)
(***************************************************************************)
SpawnsChild_OffByOne(cnum, queue_sz) ==
    LET message_floor == cnum * maxtask
        queue_backlog == queue_sz - message_floor
    IN  queue_backlog > maxtask /\ cnum <= maxspawn

SpawnsChild(cnum, queue_sz) ==
    LET message_floor == cnum * maxtask
        queue_backlog == queue_sz - message_floor
    IN  queue_backlog > maxtask /\ cnum < maxspawn

(***************************************************************************)
(* 'if response[ResponseMetadata][HTTPStatusCode] != 200:' on the response *)
(* of get_queue_attributes.                                                *)
(***************************************************************************)
BadStatus_Never(status) == FALSE

BadStatus(status) == status /= 200

(***************************************************************************)
(* queue_handler up to the drain loop, for the invocation with             *)
(* child-number cnum: get_queue_attributes gives status and queue_sz,      *)
(* invoke_ok tells whether the lambda invoke call succeeds.  On a status   *)
(* other than 200 the invocation ends at once (pc "bad_status": the print  *)
(* before the return concatenates the integer status to a string); when    *)
(* the invoke raises, the exception is raised again (pc "raised").         *)
(***************************************************************************)
queue_handler(event, status, queue_sz, invoke_ok) ==
    LET cnum == ChildNumber(event)
        w(pc, spawned, payload) ==
            [cnum |-> cnum, pc |-> pc, status |-> status, queue_sz |-> queue_sz,
             spawned |-> spawned, event |-> event, payload |-> payload]
    IN  /\ event \in invoked
        /\ nstarted' = nstarted + 1
        /\ IF BadStatus(status)
           THEN /\ workers' = Append(workers, w("bad_status", FALSE, <<>>))
                /\ invoked' = invoked \ {event}
           ELSE IF ~SpawnsChild(cnum, queue_sz)
           THEN /\ workers' = Append(workers, w("drain", FALSE, <<>>))
                /\ invoked' = invoked \ {event}
           ELSE IF invoke_ok
           THEN /\ workers' = Append(workers, w("drain", TRUE, ChildEvent(event, cnum)))
                /\ invoked' = (invoked \ {event}) \cup {ChildEvent(event, cnum)}
           ELSE /\ workers' = Append(workers, w("raised", FALSE, ChildEvent(event, cnum)))
                /\ invoked' = invoked \ {event}

StartWorker ==
    /\ \E event \in invoked, status \in HttpStatuses, queue_sz \in Depths,
          invoke_ok \in BOOLEAN :
         /\ status /= 200 => queue_sz = 0 /\ invoke_ok
         /\ ~SpawnsChild(ChildNumber(event), queue_sz) => invoke_ok
         /\ queue_handler(event, status, queue_sz, invoke_ok)
    /\ UNCHANGED <<corrVars, statVars, incVars, drainVars, concVars>>
    /\ UNCHANGED maintVars

(***************************************************************************)
(* The drain loop on an empty queue: the priming receive_message has no    *)
(* 'Messages', msg_ctr stays 0, no usage metric is sent, the invocation    *)
(* ends.                                                                   *)
(***************************************************************************)
DrainEmpty ==
    /\ \E i \in DOMAIN workers :
         /\ workers[i].pc = "drain"
         /\ workers' = [workers EXCEPT ![i].pc = "done"]
    /\ UNCHANGED <<invoked, nstarted>>
    /\ UNCHANGED <<corrVars, statVars, incVars, drainVars, concVars>>
    /\ UNCHANGED maintVars

InitScale ==
    /\ InitTables
    /\ NoQueue
    /\ NoCalls
    /\ obj = [k \in Keys |-> TheVersion]
    /\ incs = <<>>
    /\ \E event \in RootEvents : invoked = {event}
    /\ NoMaint

NextScale == StartWorker \/ DrainEmpty

SpecScale == InitScale /\ [][NextScale]_vars

(***************************************************************************)
(* SpecDrain: the drain loop of queue_handler, from the priming            *)
(* receive_message to the usage metric, run by process 1 on a queue of     *)
(* NumMsgs messages whose bodies are events of one object version.  A      *)
(* message is "visible", "inflight" (received, its visibility timeout of   *)
(* 60 seconds running) or "deleted".                                       *)
(***************************************************************************)
NumMsgs == 2            \* messages put on the queue
MaxDrainCalls == 2      \* message_handler calls in one SpecDrain behaviour
MaxReceive == 10        \* MaxNumberOfMessages of receive_message

RECURSIVE SetToSeq(_)
SetToSeq(S) ==
    IF S = {} THEN <<>>
    ELSE LET i == CHOOSE x \in S : \A y \in S : x <= y
         IN  <<i>> \o SetToSeq(S \ {i})

Range(f) == {f[i] : i \in DOMAIN f}
Visible == {i \in DOMAIN queue : queue[i].state = "visible"}
SetState(q, S, st) == [i \in DOMAIN q |-> IF i \in S THEN [q[i] EXCEPT !.state = st] ELSE q[i]]

(***************************************************************************)
(* receive_message(MaxNumberOfMessages=10, VisibilityTimeout=60), priming  *)
(* or at the end of the while body: SQS returns some of the visible        *)
(* messages, which become inflight, or a response without 'Messages',      *)
(* which ends the loop; the call itself may raise.                         *)
(***************************************************************************)
HasMessages_MoreThanOne(B) == Cardinality(B) > 1

HasMessages(B) == B /= {}

ReceiveMessage ==
    /\ drain.pc = "receive"
    /\ \/ /\ drain' = [drain EXCEPT !.pc = "raised"]
          /\ UNCHANGED queue
       \/ \E B \in SUBSET Visible :
             /\ Cardinality(B) <= MaxReceive
             /\ queue' = SetState(queue, B, "inflight")
             /\ drain' = IF HasMessages(B)
                         THEN [drain EXCEPT !.pc = "process", !.batch = SetToSeq(B),
                                            !.idx = 1]
                         ELSE [drain EXCEPT !.pc = "report"]
    /\ UNCHANGED <<delreq, nreq, metric, SEND_ANONYMOUS_USAGE_METRIC>>
    /\ UNCHANGED <<corrVars, statVars, incVars, scaleVars, concVars>>
    /\ UNCHANGED maintVars

(***************************************************************************)
(* 'if not rc:' on the value message_handler returned: its returns are     *)
(* 'return' (None) and 'return()' (the empty tuple), both false.           *)
(***************************************************************************)
NotRc_TupleIsTrue(r) == r.rc = "return" /\ ~(r.head = "200" /\ r.repstatus = "none")

NotRc_Inverted(r) == r.rc /= "return"

NotRc(r) == r.rc = "return"

(***************************************************************************)
(* 'sqs_delete.append({Id, ReceiptHandle}); msg_ctr += 1' for a message    *)
(* message_handler returned for, and on to the next message of the batch.  *)
(***************************************************************************)
Accept_NoCount(d, id) ==
    [d EXCEPT !.idx = @ + 1, !.sqs_delete = Append(@, id)]

Accept(d, id) ==
    [d EXCEPT !.idx = @ + 1, !.sqs_delete = Append(@, id), !.msg_ctr = @ + 1]

(***************************************************************************)
(* One turn of 'for message in sqs_msgs[Messages]': message_handler on the *)
(* body, not inside any try; when it returns, the message is appended to   *)
(* sqs_delete and counted; when it raises, the exception leaves            *)
(* queue_handler.                                                          *)
(***************************************************************************)
ProcessMessage ==
    /\ drain.pc = "process"
    /\ drain.idx <= Len(drain.batch)
    /\ ndeliv < MaxDrainCalls
    /\ LET id == drain.batch[drain.idx]
           ev == queue[id].body
       IN  /\ \E head \in HeadCodes : \E repstatus \in HeadStatuses(ev) :
                /\ head /= "200" => repstatus = "none"
                /\ ev.eventName /= "PutObject" => head = "200" /\ repstatus = "none"
                /\ \E oc \in HandlerOutcomes(1, ev, head, repstatus) :
                     message_handler(1, ev, head, repstatus, oc)
           /\ drain' = IF result'.rc = "raise"
                       THEN [drain EXCEPT !.pc = "raised"]
                       ELSE IF NotRc(result')
                       THEN Accept(drain, id)
                       ELSE [drain EXCEPT !.idx = @ + 1]
    /\ ndeliv' = ndeliv + 1
    /\ UNCHANGED <<queue, delreq, nreq, metric, SEND_ANONYMOUS_USAGE_METRIC>>
    /\ UNCHANGED <<obj, incVars, scaleVars, concVars>>
    /\ UNCHANGED maintVars

(***************************************************************************)
(* After the for loop: 'if len(sqs_delete) > 0: delete_message_batch(...)';*)
(* SQS deletes the entries it reports Successful (the others are only      *)
(* logged), or the call raises; sqs_delete is reset and the next           *)
(* receive_message follows.  AfterDelete is the loop after a response that  *)
(* reports Successful.                                                     *)
(***************************************************************************)
AfterDelete_Retry(d, Successful) ==
    IF Successful = Range(d.sqs_delete)
    THEN [d EXCEPT !.pc = "receive", !.batch = <<>>, !.idx = 1, !.sqs_delete = <<>>]
    ELSE [d EXCEPT !.sqs_delete = SelectSeq(@, LAMBDA i : i \notin Successful)]

AfterDelete(d, Successful) ==
    [d EXCEPT !.pc = "receive", !.batch = <<>>, !.idx = 1, !.sqs_delete = <<>>]

DeleteMessageBatch ==
    /\ drain.pc = "process"
    /\ drain.idx > Len(drain.batch)
    /\ IF drain.sqs_delete = <<>>
       THEN /\ drain' = [drain EXCEPT !.pc = "receive", !.batch = <<>>, !.idx = 1]
            /\ UNCHANGED <<queue, delreq, nreq>>
       ELSE /\ delreq' = delreq \cup Range(drain.sqs_delete)
            /\ nreq' = nreq + Len(drain.sqs_delete)
            /\ \/ /\ drain' = [drain EXCEPT !.pc = "raised"]
                  /\ UNCHANGED queue
               \/ \E Successful \in SUBSET Range(drain.sqs_delete) :
                     /\ queue' = SetState(queue, Successful, "deleted")
                     /\ drain' = AfterDelete(drain, Successful)
    /\ UNCHANGED <<metric, SEND_ANONYMOUS_USAGE_METRIC>>
    /\ UNCHANGED <<corrVars, statVars, incVars, scaleVars, concVars>>
    /\ UNCHANGED maintVars

(***************************************************************************)
(* The visibility timeout of an inflight message runs out.  The state of a *)
(* message is read by receive_message only, so a timeout during the for    *)
(* loop is taken when the loop has ended.                                  *)
(***************************************************************************)
VisibilityTimeout ==
    /\ drain.pc /= "process"
    /\ \E i \in DOMAIN queue :
         /\ queue[i].state = "inflight"
         /\ queue' = SetState(queue, {i}, "visible")
    /\ UNCHANGED <<drain, delreq, nreq, metric, SEND_ANONYMOUS_USAGE_METRIC>>
    /\ UNCHANGED <<corrVars, statVars, incVars, scaleVars, concVars>>
    /\ UNCHANGED maintVars

(***************************************************************************)
(* send_anonymous_usage_metric(metric_data): the whole body is in a try    *)
(* whose except prints and does not raise; the value is where              *)
(* queue_handler is after the call, whether the POST went through or not.  *)
(***************************************************************************)
send_anonymous_usage_metric_Raises(sent) == IF sent THEN "done" ELSE "raised"

send_anonymous_usage_metric(sent) == "done"

(***************************************************************************)
(* After the while loop: 'if SEND_ANONYMOUS_USAGE_METRIC and msg_ctr > 0:  *)
(* send_anonymous_usage_metric(...)', then queue_handler ends.             *)
(***************************************************************************)
ReportMetric ==
    /\ drain.pc = "report"
    /\ IF SEND_ANONYMOUS_USAGE_METRIC /\ drain.msg_ctr > 0
       THEN \E sent \in BOOLEAN :
               /\ metric' = Append(metric, [sent |-> sent, msg_ctr |-> drain.msg_ctr])
               /\ drain' = [drain EXCEPT !.pc = send_anonymous_usage_metric(sent)]
       ELSE /\ drain' = [drain EXCEPT !.pc = "done"]
            /\ UNCHANGED metric
    /\ UNCHANGED <<queue, delreq, nreq, SEND_ANONYMOUS_USAGE_METRIC>>
    /\ UNCHANGED <<corrVars, statVars, incVars, scaleVars, concVars>>
    /\ UNCHANGED maintVars

InitDrain ==
    /\ InitTables
    /\ NoCalls
    /\ obj = [k \in Keys |-> TheVersion]
    /\ incs = <<>>
    /\ invoked = {}
    /\ queue \in [1..NumMsgs -> [body : Events, state : {"visible"}]]
    /\ drain = [pc |-> "receive", batch |-> <<>>, idx |-> 1, sqs_delete |-> <<>>,
                msg_ctr |-> 0]
    /\ delreq = {}
    /\ nreq = 0
    /\ metric = <<>>
    /\ SEND_ANONYMOUS_USAGE_METRIC \in BOOLEAN
    /\ NoMaint

NextDrain ==
    ReceiveMessage \/ ProcessMessage \/ DeleteMessageBatch \/ VisibilityTimeout
    \/ ReportMetric

SpecDrain == InitDrain /\ [][NextDrain]_vars

(***************************************************************************)
(* The drain under fairness: an invocation that can take its next step     *)
(* (receive, handle a message, delete, report) takes it, since the Lambda  *)
(* runtime runs queue_handler to its end.  Nothing is assumed of the       *)
(* visibility timeout or of which response a call gets.  ForTurn is a turn *)
(* of the for loop seen on the count of message_handler calls: the steps   *)
(* of NextDrain that raise the count are the ProcessMessage steps, and     *)
(* ProcessMessage is enabled whenever the loop has a message left.         *)
(***************************************************************************)
ForTurn ==
    /\ drain.pc = "process"
    /\ drain.idx <= Len(drain.batch)
    /\ ndeliv < MaxDrainCalls
    /\ ndeliv' = ndeliv + 1

SpecDrainLive ==
    /\ InitDrain
    /\ [][NextDrain]_vars
    /\ WF_vars(ReceiveMessage)
    /\ WF_ndeliv(ForTurn)
    /\ WF_vars(DeleteMessageBatch)
    /\ WF_vars(ReportMetric)

(***************************************************************************)
(* SpecConc: the events of one object version are delivered to             *)
(* message_handler calls that run at the same time, one per lambda         *)
(* process.  A call is two steps: up to and including get_item, then       *)
(* log_statistics and update_item on the item it read; the calls of the    *)
(* other process may come in between.                                      *)
(***************************************************************************)
Reading == {p \in Procs : inflight[p].pc = "read"}

(***************************************************************************)
(* message_handler up to get_item(ConsistentRead=True): an event that is   *)
(* dropped, or a describe_table or get_item that raises, ends the call     *)
(* here; otherwise the call holds the item read.                           *)
(***************************************************************************)
ReadItem ==
    /\ ndeliv + Cardinality(Reading) < MaxDeliveries
    /\ \E p \in Procs, ev \in Events, head \in HeadCodes :
         \E repstatus \in HeadStatuses(ev) :
           /\ inflight[p].pc = "idle"
           /\ head /= "200" => repstatus = "none"
           /\ ev.eventName /= "PutObject" => head = "200" /\ repstatus = "none"
           /\ \E oc \in {"ok", "describe_raise", "get_raise"} :
                /\ Ignored(ev, head, repstatus) => oc = "ok"
                /\ IF Ignored(ev, head, repstatus) \/ oc /= "ok"
                   THEN /\ AfterGetItem(p, GetItem(ddbtable, ev.etag), ev, head,
                                        repstatus, oc)
                        /\ ndeliv' = ndeliv + 1
                        /\ UNCHANGED inflight
                   ELSE /\ inflight' = [inflight EXCEPT ![p] =
                               [pc |-> "read", ev |-> ev, head |-> head,
                                repstatus |-> repstatus,
                                ddbitem |-> GetItem(ddbtable, ev.etag)]]
                        /\ UNCHANGED <<ddbtable, result, ndeliv, nelapsed, handled,
                                       stattable, initfail>>
    /\ UNCHANGED <<obj, incVars, scaleVars, drainVars>>
    /\ UNCHANGED maintVars

(***************************************************************************)
(* message_handler from the item read to its end: the merge, the           *)
(* log_statistics call and the final update_item.                          *)
(***************************************************************************)
WriteItem ==
    /\ \E p \in Reading :
         LET c == inflight[p]
         IN  /\ \E oc \in WriteOutcomes(p, c.ddbitem, c.ev, c.repstatus) :
                  AfterGetItem(p, c.ddbitem, c.ev, c.head, c.repstatus, oc)
             /\ inflight' = [inflight EXCEPT ![p] = NoCall]
    /\ ndeliv' = ndeliv + 1
    /\ UNCHANGED <<obj, incVars, scaleVars, drainVars>>
    /\ UNCHANGED maintVars

InitConc ==
    /\ InitTables
    /\ NoQueue
    /\ NoCalls
    /\ obj \in [Keys -> Versions]
    /\ incs = <<>>
    /\ invoked = {}
    /\ NoMaint

NextConc == ReadItem \/ WriteItem

SpecConc == InitConc /\ [][NextConc]_vars

(***************************************************************************)
(* CRRMonitorHousekeeping.lambda_handler, the bucket it reads up to:       *)
(* 'rounding = (secs-roundTo/2) // roundTo * roundTo' and                  *)
(* 'ts = ts + timedelta(0, rounding-secs, -ts.microsecond)', with          *)
(* ts = utcnow().  roundTo/2 is a float division:                          *)
(* floor((secs - r/2) / r) = floor((2*secs - r) / (2*r)).                  *)
(***************************************************************************)
housekeeping_rounding_Current(secs, roundTo) ==
    ((2 * secs + roundTo) \div (2 * roundTo)) * roundTo

housekeeping_rounding(secs, roundTo) ==
    ((2 * secs - roundTo) \div (2 * roundTo)) * roundTo

housekeeping_statbucket(now, roundTo) ==
    LET ts == strptime(now)
        secs == ts % 86400
    IN  strftime(ts + (housekeeping_rounding(secs, roundTo) - secs))

(***************************************************************************)
(* 'timebucket <= :stats' of the scan filter: a comparison of two strings  *)
(* of format timefmt, that is field by field from the left.                *)
(***************************************************************************)
StrLess(a, b) ==
    \E i \in 1..4 : a[i] < b[i] /\ \A j \in 1..(i - 1) : a[j] = b[j]

StrLessEq(a, b) == a = b \/ StrLess(a, b)

(***************************************************************************)
(* SpecCutoff: the housekeeping lambda_handler computes its statbucket     *)
(* once, at any current time and with any bucket width.                    *)
(***************************************************************************)
CutoffOnce ==
    /\ flush = NoRun
    /\ \E now \in RoundTstamps, roundTo \in RoundWidths :
         flush' = [pc |-> "cutoff", now |-> now, roundTo |-> roundTo,
                   statbucket |-> housekeeping_statbucket(now, roundTo)]
    /\ UNCHANGED <<sweep, cw>>
    /\ UNCHANGED <<corrVars, statVars, incVars, scaleVars, drainVars, concVars>>

InitCutoff ==
    /\ InitTables
    /\ NoQueue
    /\ NoCalls
    /\ NoMaint
    /\ obj = [k \in Keys |-> TheVersion]
    /\ incs = <<>>
    /\ invoked = {}

NextCutoff == CutoffOnce

SpecCutoff == InitCutoff /\ [][NextCutoff]_vars

(***************************************************************************)
(* SpecFlush: the housekeeping lambda_handler runs while log_statistics    *)
(* calls are made.  A run computes its statbucket from the current time,   *)
(* scans the statistics table for the items with timebucket <= statbucket  *)
(* and calls post_stats on each item of the response.                      *)
(***************************************************************************)
MaxFlushes == 2         \* runs of the housekeeping lambda_handler in one behaviour

HousekeepingRoundTo == 300      \* getparm('roundto', 300)
FlushTimes == {<<1, 0, 4, 0>>, <<1, 0, 13, 0>>}

RECURSIVE AsSeq(_)
AsSeq(S) ==
    IF S = {} THEN <<>>
    ELSE LET x == CHOOSE y \in S : TRUE
         IN  <<x>> \o AsSeq(S \ {x})

(***************************************************************************)
(* scan(TableName=stattable, FilterExpression='timebucket <= :stats',      *)
(* ConsistentRead=True): the items as they are when the scan is made.      *)
(***************************************************************************)
ScanItems(tbl, stats) ==
    AsSeq({tbl[k] : k \in {x \in DOMAIN tbl : StrLessEq(tbl[x].timebucket, stats)}})

DeleteItem(tbl, key) == [k \in DOMAIN tbl \ {key} |-> tbl[k]]

(***************************************************************************)
(* post_stats(item): put_metric_data of FailedReplications for a FAILED    *)
(* item, of ReplicationObjects and then ReplicationSpeed for any other,    *)
(* with the values of the scanned item; then delete_item of the bucket.    *)
(* Each call may raise, and the exception is raised again; the speed       *)
(* ((size*8)/1024)/(elapsed+1), kept as a fraction, raises when            *)
(* elapsed = -1.                                                           *)
(***************************************************************************)
PostOutcomes(item) ==
    IF item.dest_bucket = "FAILED" THEN {"ok", "put_raise", "delete_raise"}
    ELSE IF item.elapsed + 1 = 0 THEN {"put_raise", "speed_raise"}
    ELSE {"ok", "put_raise", "speed_raise", "delete_raise"}

MetricData(name, item, value) ==
    [MetricName |-> name, SourceBucket |-> item.source_bucket,
     DestBucket |-> item.dest_bucket, Timestamp |-> item.timebucket, Value |-> value]

post_stats(tbl, item, oc) ==
    LET key == statbucket(item.source_bucket, item.dest_bucket, item.timebucket)
        objects == MetricData(IF item.dest_bucket = "FAILED" THEN "FailedReplications"
                              ELSE "ReplicationObjects", item, item.objects)
        speed == MetricData("ReplicationSpeed", item,
                            <<item.size * 8, 1024 * (item.elapsed + 1)>>)
    IN  [data |-> IF oc = "put_raise" THEN <<>>
                  ELSE IF item.dest_bucket = "FAILED" \/ oc = "speed_raise" THEN <<objects>>
                  ELSE <<objects, speed>>,
         tbl |-> IF oc = "ok" THEN DeleteItem(tbl, key) ELSE tbl,
         raised |-> oc /= "ok"]

FlushRuns == IF "run" \in DOMAIN flush THEN flush.run ELSE 0

FlushScan ==
    /\ flush.pc \in {"none", "done", "raised"}
    /\ FlushRuns < MaxFlushes
    /\ \E now \in FlushTimes, oc \in {"ok", "describe_raise", "scan_raise"} :
         LET items == ScanItems(stattable, housekeeping_statbucket(now, HousekeepingRoundTo))
         IN  flush' = [pc |-> IF oc /= "ok" THEN "raised"
                              ELSE IF items = <<>> THEN "done" ELSE "post",
                       run |-> FlushRuns + 1,
                       items |-> IF oc = "ok" THEN items ELSE <<>>,
                       idx |-> 1]
    /\ UNCHANGED <<sweep, cw>>
    /\ UNCHANGED <<corrVars, statVars, incVars, scaleVars, drainVars, concVars>>

PostStats ==
    /\ flush.pc = "post"
    /\ \E oc \in PostOutcomes(flush.items[flush.idx]) :
         LET ps == post_stats(stattable, flush.items[flush.idx], oc)
         IN  /\ cw' = cw \o ps.data
             /\ stattable' = ps.tbl
             /\ flush' = IF ps.raised THEN [flush EXCEPT !.pc = "raised"]
                         ELSE IF flush.idx = Len(flush.items)
                         THEN [flush EXCEPT !.pc = "done", !.idx = @ + 1]
                         ELSE [flush EXCEPT !.idx = @ + 1]
    /\ UNCHANGED <<sweep, initfail>>
    /\ UNCHANGED <<corrVars, incVars, scaleVars, drainVars, concVars>>

FlushIncChoices == {c \in IncChoices : c.proc = 1}

InitFlush ==
    /\ InitTables
    /\ NoQueue
    /\ NoCalls
    /\ NoMaint
    /\ obj = [k \in Keys |-> TheVersion]
    /\ incs \in [1..NumIncs -> FlushIncChoices]
    /\ invoked = {}

NextFlush == LogSample \/ FlushScan \/ PostStats

SpecFlush == InitFlush /\ [][NextFlush]_vars

(***************************************************************************)
(* SpecSweep: the hourly maintenance lambda_handler (CRRHourlyMaint.py)    *)
(* runs between message_handler calls.  A run scans the correlation table  *)
(* for the records with 'replication_status <> COMPLETED and               *)
(* start_datetime < check', check being utcnow() - 1 hour, and calls       *)
(* process_items on the response.                                          *)
(***************************************************************************)
MaxSweeps == 2          \* runs of the hourly maintenance lambda_handler in one behaviour

CheckTimes == {<<1, 0, 0, 0>>, <<1, 2, 0, 0>>}

(***************************************************************************)
(* The filter of the scan.  A record without start_datetime does not pass  *)
(* the '<' test; whether a record without replication_status passes the    *)
(* '<>' test is left open (sure is TRUE for the records that pass in any   *)
(* case, FALSE for those that may pass).                                   *)
(***************************************************************************)
Incomplete(item, check, sure) ==
    /\ "start_datetime" \in DOMAIN item
    /\ StrLess(item.start_datetime, check)
    /\ IF "replication_status" \in DOMAIN item
       THEN item.replication_status /= "COMPLETED"
       ELSE ~sure

ScanIncompletes(tbl, check) ==
    {S \in SUBSET DOMAIN tbl :
        /\ \A k \in S : Incomplete(tbl[k], check, FALSE)
        /\ \A k \in DOMAIN tbl : Incomplete(tbl[k], check, TRUE) => k \in S}

(***************************************************************************)
(* log_statistics of CRRHourlyMaint.py: the update_item of                 *)
(* Src:Dst:timebucket only (no initfail, no second bucket).                *)
(***************************************************************************)
maint_log_statistics(tbl, Src, Dst, Tstamp, Size, ET, roundTo) ==
    LET tb == timebucket(Tstamp, roundTo)
    IN  StatUpdateItem(tbl, statbucket(Src, Dst, tb), tb, Src, Dst, 1, Size, ET)

(***************************************************************************)
(* process_items, one item i of the response: head_object on               *)
(* i[s3Origin], i[s3Object]; on any exception purge_item(i[ETag]);         *)
(* otherwise the x-amz-replication-status header decides: COMPLETED sets   *)
(* replication_status, FAILED sets it and logs a FAILED sample with        *)
(* i[start_datetime], any other value sets s3Object only; a response       *)
(* without the header raises KeyError.  head is "exc" or "200", oc the     *)
(* outcome of the store calls.                                             *)
(***************************************************************************)
SweepHeadStatuses == {"COMPLETED", "FAILED", "PENDING", "none"}

SweepOutcomes(head, repstatus) ==
    IF head = "exc" THEN {"ok", "purge_raise"}
    ELSE IF repstatus = "none" THEN {"ok"}
    ELSE {"ok", "update_raise"} \cup (IF repstatus = "FAILED" THEN {"stat_raise"} ELSE {})

process_item(ddb, stat, key, i, head, repstatus, oc) ==
    IF head = "exc"
    THEN [ddb |-> IF oc = "ok" THEN DeleteItem(ddb, key) ELSE ddb,
          stat |-> stat, raised |-> oc /= "ok"]
    ELSE IF repstatus = "none" \/ oc = "stat_raise"
    THEN [ddb |-> ddb, stat |-> stat, raised |-> TRUE]
    ELSE LET attrs == IF repstatus \in {"COMPLETED", "FAILED"}
                      THEN [s3Object |-> i.s3Object, replication_status |-> repstatus]
                      ELSE [s3Object |-> i.s3Object]
             stat1 == IF repstatus = "FAILED"
                      THEN maint_log_statistics(stat, i.s3Origin, "FAILED",
                                                i.start_datetime, 0, 1, 300)
                      ELSE stat
         IN  [ddb |-> IF oc = "ok" THEN UpdateItem(ddb, key, attrs) ELSE ddb,
              stat |-> stat1, raised |-> oc /= "ok"]

SweepRuns == IF "run" \in DOMAIN sweep THEN sweep.run ELSE 0

SweepScan ==
    /\ sweep.pc \in {"none", "done", "raised"}
    /\ SweepRuns < MaxSweeps
    /\ \E check \in CheckTimes, oc \in {"ok", "scan_raise"} :
         \E S \in ScanIncompletes(ddbtable, check) :
            sweep' = [pc |-> IF oc /= "ok" THEN "raised"
                             ELSE IF S = {} THEN "done" ELSE "items",
                      run |-> SweepRuns + 1,
                      items |-> IF oc = "ok"
                                THEN AsSeq({[key |-> k, item |-> ddbtable[k]] : k \in S})
                                ELSE <<>>,
                      idx |-> 1]
    /\ UNCHANGED <<flush, cw>>
    /\ UNCHANGED <<corrVars, statVars, incVars, scaleVars, drainVars, concVars>>

SweepItem ==
    /\ sweep.pc = "items"
    /\ \E head \in {"exc", "200"}, repstatus \in SweepHeadStatuses :
         /\ head = "exc" => repstatus = "none"
         /\ \E oc \in SweepOutcomes(head, repstatus) :
              LET e == sweep.items[sweep.idx]
                  pi == process_item(ddbtable, stattable, e.key, e.item, head, repstatus, oc)
              IN  /\ ddbtable' = pi.ddb
                  /\ stattable' = pi.stat
                  /\ sweep' = IF pi.raised THEN [sweep EXCEPT !.pc = "raised"]
                              ELSE IF sweep.idx = Len(sweep.items)
                              THEN [sweep EXCEPT !.pc = "done", !.idx = @ + 1]
                              ELSE [sweep EXCEPT !.idx = @ + 1]
    /\ UNCHANGED <<flush, cw, initfail>>
    /\ UNCHANGED <<result, obj, ndeliv, nelapsed, handled>>
    /\ UNCHANGED <<incVars, scaleVars, drainVars, concVars>>

InitSweep ==
    /\ InitTables
    /\ NoQueue
    /\ NoCalls
    /\ NoMaint
    /\ obj = [k \in Keys |-> TheVersion]
    /\ incs = <<>>
    /\ invoked = {}

NextSweep == Deliver \/ SweepScan \/ SweepItem

SpecSweep == InitSweep /\ [][NextSweep]_vars

(***************************************************************************)
(* Helpers of the properties.                                              *)
(***************************************************************************)
Has(item, attr) == attr \in DOMAIN item
Record(k) == GetItem(ddbtable, k)
Abs(n) == IF n < 0 THEN -n ELSE n
Changed(old, new, attr) ==
    \/ Has(old, attr) /= Has(new, attr)
    \/ Has(old, attr) /\ Has(new, attr) /\ old[attr] /= new[attr]
Handled == ndeliv' = ndeliv + 1
IsReplicaCall(r) == r.rc /= "none" /\ r.repstatus = "REPLICA"
IsSourceCall(r) == r.rc /= "none" /\ r.repstatus \in SourceStatuses \cup {"OTHER"}

(***************************************************************************)
(* C1 as stated: once the source event and the replica event of a key have *)
(* both been merged, in any order and with any duplicates, the record has  *)
(* elapsed, written exactly once, equal to |end_datetime - start_datetime|.*)
(***************************************************************************)
C1_ElapsedAbsolute ==
    \A k \in Keys :
        Has(Record(k), "start_datetime") /\ Has(Record(k), "end_datetime")
        => /\ Has(Record(k), "elapsed")
           /\ nelapsed[k] = 1
           /\ Record(k).elapsed = Abs(strptime(Record(k).end_datetime)
                                       - strptime(Record(k).start_datetime))

(***************************************************************************)
(* C1 amended: once both events of a key have been merged, in any order    *)
(* and with any duplicates, the record has elapsed, written exactly once,  *)
(* equal to the signed difference end_datetime - start_datetime (the       *)
(* replica event time minus the source event time).                        *)
(***************************************************************************)
C1_ElapsedOnceSigned ==
    \A k \in Keys :
        Has(Record(k), "start_datetime") /\ Has(Record(k), "end_datetime")
        => /\ Has(Record(k), "elapsed")
           /\ nelapsed[k] = 1
           /\ Record(k).elapsed = strptime(obj[k].repTime) - strptime(obj[k].srcTime)
           /\ Record(k).elapsed = strptime(Record(k).end_datetime)
                                   - strptime(Record(k).start_datetime)

C1_Witness ==
    \E k \in Keys :
        /\ Has(Record(k), "elapsed") /\ nelapsed[k] = 1
        /\ Record(k).elapsed < 0
        /\ result.rc = "return" /\ Has(result.ddbitem, "elapsed")

(***************************************************************************)
(* C2: once elapsed, crr_rate and itemttl are on a record, no delivery of  *)
(* the source event or of the replica event changes any of the three.      *)
(***************************************************************************)
DerivedSet(item) ==
    Has(item, "elapsed") /\ Has(item, "crr_rate") /\ Has(item, "itemttl")

C2_RedeliveryKeepsDerived ==
    [][\A k \in Keys :
         DerivedSet(Record(k))
         => /\ DerivedSet(GetItem(ddbtable', k))
            /\ ddbtable'[k].elapsed = ddbtable[k].elapsed
            /\ ddbtable'[k].crr_rate = ddbtable[k].crr_rate
            /\ ddbtable'[k].itemttl = ddbtable[k].itemttl]_vars

C2_Witness ==
    /\ IsReplicaCall(result) /\ result.rc = "return"
    /\ DerivedSet(result.ddbitem)
    /\ DerivedSet(Record(result.ev.etag))

(***************************************************************************)
(* C3: a FAILED source event handled on a record without end_datetime (no  *)
(* replica event before it) sets replication_status = FAILED and adds      *)
(* exactly one sample, objects 1, size 0, elapsed 1, to the bucket         *)
(* source:FAILED:interval, and touches no other bucket.                    *)
(***************************************************************************)
FailedBucket(ev) ==
    statbucket(ev.bucket, "FAILED", timebucket(ev.eventTime, StatRoundTo))

IsFailedCall(r) ==
    IsSourceCall(r) /\ r.repstatus = "FAILED" /\ r.rc = "return"
        /\ ~Has(r.ddbitem, "end_datetime")

C3_FailedSourceSample ==
    [][Handled /\ IsFailedCall(result')
       => LET b == FailedBucket(result'.ev)
          IN  /\ GetItem(ddbtable', result'.ev.etag).replication_status = "FAILED"
              /\ b \in DOMAIN stattable'
              /\ stattable'[b].objects = StatOld(stattable, b, "objects") + 1
              /\ stattable'[b].size = StatOld(stattable, b, "size")
              /\ stattable'[b].elapsed = StatOld(stattable, b, "elapsed") + 1
              /\ \A c \in DOMAIN stattable' \ {b} :
                     c \in DOMAIN stattable /\ stattable'[c] = stattable[c]]_vars

C3_Witness ==
    /\ IsFailedCall(result)
    /\ result.ddbitem = NoItems
    /\ Record(result.ev.etag).replication_status = "FAILED"
    /\ stattable[FailedBucket(result.ev)].objects = 1
    /\ stattable[FailedBucket(result.ev)].size = 0
    /\ stattable[FailedBucket(result.ev)].elapsed = 1

(***************************************************************************)
(* C4: handling the same FAILED source event again, after its first        *)
(* handling succeeded (the record read already has replication_status      *)
(* FAILED and the start_datetime of the event), adds no second sample to   *)
(* the bucket source:FAILED:interval.                                      *)
(***************************************************************************)
C4_FailedRedeliveryNoSample ==
    [][/\ Handled
       /\ IsFailedCall(result')
       /\ Has(result'.ddbitem, "replication_status")
       /\ result'.ddbitem.replication_status = "FAILED"
       /\ result'.ddbitem.start_datetime = result'.ev.eventTime
       => StatOld(stattable', FailedBucket(result'.ev), "objects")
            = StatOld(stattable, FailedBucket(result'.ev), "objects")]_vars

(***************************************************************************)
(* C5: a completed replication adds at most one sample to the statistics   *)
(* buckets also under partial failure: when the update_item of the record  *)
(* raised in one call (after its log_statistics, if any, succeeded) and    *)
(* the same event is handled again in the next call, that call adds no     *)
(* sample to a source:replica bucket that the failed call already added.   *)
(* CompletedSamples counts the samples in the source:replica buckets; one  *)
(* key is one replication.                                                 *)
(***************************************************************************)
RECURSIVE SumObjects(_, _)
SumObjects(tbl, keys) ==
    IF keys = {} THEN 0
    ELSE LET b == CHOOSE x \in keys : TRUE
         IN  tbl[b].objects + SumObjects(tbl, keys \ {b})

CompletedSamples == SumObjects(stattable, {b \in DOMAIN stattable : b[2] /= "FAILED"})

CompletedSamplesNext ==
    SumObjects(stattable', {b \in DOMAIN stattable' : b[2] /= "FAILED"})

C5_AtMostOneSample ==
    [][/\ Handled
       /\ result.rc = "raise" /\ result.oc = "update_raise"
       /\ result'.ev = result.ev /\ result'.repstatus = result.repstatus
       /\ CompletedSamples = Cardinality(Keys)
       => CompletedSamplesNext = CompletedSamples]_vars

(***************************************************************************)
(* C6: merges commute.  Once a source event (PENDING or COMPLETED) and the *)
(* replica event of a key have both been handled without a store failure,  *)
(* in either order, the record is the same: the buckets, start_datetime of *)
(* the source event, end_datetime of the replica event, elapsed, crr_rate, *)
(* itemttl and replication_status COMPLETED.                               *)
(***************************************************************************)
FinalRecord(k) ==
    LET et == strptime(obj[k].repTime) - strptime(obj[k].srcTime)
    IN  [s3Object |-> obj[k].name, ObjectSize |-> obj[k].size,
         s3Origin |-> SrcBucket, s3Replica |-> RepBucket,
         start_datetime |-> obj[k].srcTime, end_datetime |-> obj[k].repTime,
         elapsed |-> et, crr_rate |-> <<obj[k].size * 8, et + 1>>,
         itemttl |-> strptime(obj[k].repTime) - purge_thresh * 3600,
         replication_status |-> "COMPLETED"]

C6_MergesCommute ==
    \A k \in Keys : handled[k] = {"source", "replica"} => Record(k) = FinalRecord(k)

(***************************************************************************)
(* C7: start_datetime is only ever the time of the source event and        *)
(* end_datetime the time of the replica event; no call of message_handler  *)
(* writes both; a replica call leaves s3Origin and start_datetime as they  *)
(* were and a source call leaves s3Replica and end_datetime as they were.  *)
(***************************************************************************)
C7_State ==
    \A k \in Keys :
        /\ Has(Record(k), "start_datetime") => Record(k).start_datetime = obj[k].srcTime
        /\ Has(Record(k), "end_datetime") => Record(k).end_datetime = obj[k].repTime
        /\ Has(Record(k), "s3Origin") => Record(k).s3Origin = SrcBucket
        /\ Has(Record(k), "s3Replica") => Record(k).s3Replica = RepBucket

C7_Frame ==
    \A k \in Keys :
        LET old == Record(k)
            new == GetItem(ddbtable', k)
        IN  /\ ~(Changed(old, new, "start_datetime") /\ Changed(old, new, "end_datetime"))
            /\ IsReplicaCall(result')
               => ~Changed(old, new, "start_datetime") /\ ~Changed(old, new, "s3Origin")
            /\ IsSourceCall(result')
               => ~Changed(old, new, "end_datetime") /\ ~Changed(old, new, "s3Replica")

C7_ExclusiveFields == [](C7_State) /\ [][Handled => C7_Frame]_vars

C7_Witness ==
    /\ IsReplicaCall(result) /\ result.rc = "return"
    /\ Has(result.ddbitem, "start_datetime") /\ ~Has(result.ddbitem, "end_datetime")
    /\ Record(result.ev.etag).start_datetime = result.ddbitem.start_datetime
    /\ Record(result.ev.etag).end_datetime = result.ev.eventTime

(***************************************************************************)
(* C8: in the spawn chain of a root invocation at most maxspawn + 1        *)
(* invocations of queue_handler are ever started, whatever queue depths    *)
(* they see; when every invocation sees a depth of 250 (maxtask 100,       *)
(* maxspawn 3), invocation 0 spawns 1, 1 spawns 2, 2 does not spawn, and   *)
(* exactly 3 invocations are started.                                      *)
(***************************************************************************)
AllSee(depth) ==
    \A i \in DOMAIN workers : workers[i].status = 200 /\ workers[i].queue_sz = depth
ChainEnded ==
    invoked = {} /\ \A i \in DOMAIN workers : workers[i].pc \in {"drain", "done"}

C8_SpawnCap ==
    /\ nstarted <= maxspawn + 1
    /\ Len(workers) = nstarted
    /\ \A i \in DOMAIN workers : workers[i].cnum = i - 1
    /\ AllSee(250) /\ ChainEnded
       => /\ nstarted = 3
          /\ workers[1].spawned /\ workers[2].spawned /\ ~workers[3].spawned

C8_Witness ==
    /\ AllSee(250) /\ ChainEnded
    /\ nstarted = 3
    /\ \A i \in DOMAIN workers : workers[i].pc = "done"

(***************************************************************************)
(* C9: the increments of log_statistics add up.  Whatever the order in     *)
(* which the samples are applied and whichever process applies them, each  *)
(* bucket holds objects = the number of samples applied to it,             *)
(* size = the sum of their sizes and elapsed = the sum of their elapsed    *)
(* times (a FAILED bucket also holds the 1, 1 of each initialisation       *)
(* written to it).                                                         *)
(***************************************************************************)
BucketOf(inc) == statbucket(inc.Src, inc.Dst, timebucket(inc.Tstamp, StatRoundTo))

RECURSIVE SumOver(_, _, _)
SumOver(b, is, field) ==
    IF is = {} THEN 0
    ELSE LET i == CHOOSE x \in is : TRUE
         IN  (IF BucketOf(incs[i]) = b
              THEN (IF field = "objects" THEN 1 ELSE incs[i][field])
              ELSE 0) + SumOver(b, is \ {i}, field)

C9_IncrementsAddUp ==
    /\ \A i \in applied : BucketOf(incs[i]) \in DOMAIN stattable
    /\ \A b \in DOMAIN stattable :
         /\ stattable[b].objects = SumOver(b, applied, "objects")
         /\ b[2] /= "FAILED"
            => /\ stattable[b].size = SumOver(b, applied, "Size")
               /\ stattable[b].elapsed = SumOver(b, applied, "ET")
         /\ b[2] = "FAILED"
            => /\ stattable[b].size >= SumOver(b, applied, "Size")
               /\ stattable[b].size - SumOver(b, applied, "Size")
                    = stattable[b].elapsed - SumOver(b, applied, "ET")

C9_Witness ==
    /\ applied = DOMAIN incs
    /\ \E b \in DOMAIN stattable : b[2] /= "FAILED" /\ stattable[b].objects = NumIncs
    /\ \E i, j \in DOMAIN incs : incs[i].proc /= incs[j].proc

(***************************************************************************)
(* C10 as stated: log_statistics puts the timestamp 00:07:32, with a       *)
(* bucket width of 300 seconds, into the bucket starting at 00:05:00.      *)
(***************************************************************************)
CallAt(h, m, sec, roundTo) ==
    /\ call /= <<>>
    /\ call.oc = "ok"
    /\ call.Tstamp = <<call.Tstamp[1], h, m, sec>>
    /\ call.roundTo = roundTo

BucketAt(h, m, sec) ==
    LET b == statbucket(call.Src, call.Dst, <<call.Tstamp[1], h, m, sec>>)
    IN  /\ DOMAIN stattable = {b, statbucket(call.Src, "FAILED", b[3])}
        /\ stattable[b].timebucket = b[3]

C10_RoundsTo0005 == CallAt(0, 7, 32, 300) => BucketAt(0, 5, 0)

(***************************************************************************)
(* C10 amended: log_statistics puts the timestamp 00:07:32, with a bucket  *)
(* width of 300 seconds, into the bucket starting at 00:10:00, the nearest *)
(* multiple of 300 seconds.                                                *)
(***************************************************************************)
C10_RoundsTo0010 == CallAt(0, 7, 32, 300) => BucketAt(0, 10, 0)

C10_Witness == CallAt(0, 7, 32, 300) /\ BucketAt(0, 10, 0)

(***************************************************************************)
(* C11: for every timestamp and bucket width roundTo, log_statistics puts  *)
(* the sample into the bucket whose start b is the multiple of roundTo     *)
(* nearest to the offset of the timestamp in its day, an exact             *)
(* half-interval tie going up: b - roundTo/2 <= offset < b + roundTo/2     *)
(* (doubled here to stay in the integers), and the key of the bucket is    *)
(* source:destination:rounded timestamp.                                   *)
(***************************************************************************)
CallOffset == strptime(call.Tstamp) % 86400
CallDayStart == strptime(call.Tstamp) - CallOffset

C11_NearestBucket ==
    (call /= <<>> /\ call.oc = "ok") =>
        \E b \in 0..(86400 + call.roundTo) :
            /\ b % call.roundTo = 0
            /\ 2 * b - call.roundTo <= 2 * CallOffset
            /\ 2 * CallOffset < 2 * b + call.roundTo
            /\ LET tb == strftime(CallDayStart + b)
                   key == <<call.Src, call.Dst, tb>>
               IN  /\ DOMAIN stattable = {key, <<call.Src, "FAILED", tb>>}
                   /\ stattable[key].timebucket = tb
                   /\ stattable[key].objects = 1

C11_Witness == CallAt(0, 2, 30, 300) /\ BucketAt(0, 5, 0)

(***************************************************************************)
(* C15: a source-side event whose replication status is none of COMPLETED, *)
(* FAILED, PENDING (and is not REPLICA) makes message_handler raise, and   *)
(* the call changes neither the record nor any statistics bucket.          *)
(***************************************************************************)
IsUnknownCall(r) ==
    /\ r.rc /= "none"
    /\ r.ev.eventName = "PutObject"
    /\ r.head = "200"
    /\ r.repstatus \notin SourceStatuses \cup {"REPLICA", "none"}

C15_UnknownStatusRaises ==
    [][(Handled /\ IsUnknownCall(result')) =>
          /\ result'.rc = "raise"
          /\ ddbtable' = ddbtable
          /\ stattable' = stattable]_vars

C15_Witness ==
    /\ IsUnknownCall(result)
    /\ result.oc = "ok"
    /\ result.rc = "raise"
    /\ \E k \in Keys : Has(Record(k), "end_datetime") /\ ~Has(Record(k), "crr_rate")
    /\ stattable = NoItems

(***************************************************************************)
(* C13: an invocation whose invoke of the child failed logs the failure    *)
(* and still runs its own drain loop: it is never ended by the failure.    *)
(***************************************************************************)
SpawnFailed(w) ==
    w.status = 200 /\ SpawnsChild(w.cnum, w.queue_sz) /\ ~w.spawned

C13_SpawnFailureStillDrains ==
    \A i \in DOMAIN workers :
        SpawnFailed(workers[i]) => workers[i].pc \in {"drain", "done"}

(***************************************************************************)
(* C20: in every reachable state a record that holds elapsed or crr_rate   *)
(* holds both start_datetime and end_datetime; and once a record holds     *)
(* both derived fields, no later event changes them: a call of             *)
(* message_handler leaves their values as they were, and the merge of an   *)
(* event of either side, whatever its eventTime and status, names neither  *)
(* of them in its update.                                                  *)
(***************************************************************************)
HasDerived(item) == Has(item, "elapsed") /\ Has(item, "crr_rate")
AnyTimes == SrcTimes \cup RepTimes
AnyEvents(k) ==
    {[SourceEvent(k) EXCEPT !.eventTime = t] : t \in AnyTimes} \cup
    {[ReplicaEvent(k) EXCEPT !.eventTime = t] : t \in AnyTimes}
StatusesOf(ev) == IF ev.bucket = RepBucket THEN {"REPLICA"} ELSE SourceStatuses

C20_State ==
    \A k \in Keys :
        /\ (Has(Record(k), "elapsed") \/ Has(Record(k), "crr_rate"))
           => Has(Record(k), "start_datetime") /\ Has(Record(k), "end_datetime")
        /\ HasDerived(Record(k)) =>
             \A ev \in AnyEvents(k) : \A st \in StatusesOf(ev) :
                LET m == Merge(Record(k), ev, st, obj[k].size)
                IN  ~m.raises /\ ~Has(m.attrs, "elapsed") /\ ~Has(m.attrs, "crr_rate")

C20_Frame ==
    \A k \in Keys :
        HasDerived(Record(k)) =>
            /\ ~Changed(Record(k), GetItem(ddbtable', k), "elapsed")
            /\ ~Changed(Record(k), GetItem(ddbtable', k), "crr_rate")

C20_DerivedNeedBothTimes == [](C20_State) /\ [][C20_Frame]_vars

C20_Witness ==
    /\ result.rc = "return" /\ result.oc = "ok"
    /\ IsSourceCall(result)
    /\ HasDerived(result.ddbitem)
    /\ HasDerived(Record(result.ev.etag))
    /\ Record(result.ev.etag).elapsed = result.ddbitem.elapsed

(***************************************************************************)
(* C12: when get_item or the final update_item fails on one message, the   *)
(* drain loop treats the message as rejected (it is not put on             *)
(* sqs_delete) and goes on with the next message of the batch; the failure *)
(* never ends the loop.                                                    *)
(***************************************************************************)
StoreFailure(r) == r.rc = "raise" /\ r.oc \in {"get_raise", "update_raise"}

C12_StoreFailureIsolated ==
    [][(Handled /\ StoreFailure(result')) =>
          /\ drain'.pc = "process"
          /\ drain'.idx = drain.idx + 1
          /\ drain'.sqs_delete = drain.sqs_delete]_vars

(***************************************************************************)
(* C14: the usage metric is sent only after the drain loop has ended (the  *)
(* last receive_message had no 'Messages'), only with the flag set and     *)
(* msg_ctr > 0, at most once, and whether the POST goes through or fails   *)
(* queue_handler then ends normally.                                       *)
(***************************************************************************)
C14_MetricNeverFails ==
    metric /= <<>> =>
        /\ drain.pc = "done"
        /\ drain.batch = <<>> /\ drain.sqs_delete = <<>>
        /\ Len(metric) = 1
        /\ SEND_ANONYMOUS_USAGE_METRIC
        /\ metric[1].msg_ctr = drain.msg_ctr /\ drain.msg_ctr > 0

C14_Witness ==
    /\ metric /= <<>> /\ ~metric[1].sent
    /\ drain.pc = "done"
    /\ \E i \in DOMAIN queue : queue[i].state = "deleted"

(***************************************************************************)
(* C16: when head_object fails (404, 403, any other error) message_handler *)
(* returns without error and without reading or writing the record table   *)
(* or the statistics table, and the drain loop takes the message as        *)
(* accepted: it is put on sqs_delete and counted, and the                  *)
(* delete_message_batch at the end of the batch names it.                  *)
(***************************************************************************)
ProbeFailed(r) == r.rc /= "none" /\ r.ev.eventName = "PutObject" /\ r.head /= "200"

NoStoreTouched ==
    /\ result'.rc = "return" /\ result'.oc = "ok" /\ result'.ddbitem = NoItems
    /\ ddbtable' = ddbtable /\ stattable' = stattable /\ initfail' = initfail

Accepted ==
    /\ drain'.pc = "process"
    /\ drain'.sqs_delete = Append(drain.sqs_delete, drain.batch[drain.idx])
    /\ drain'.msg_ctr = drain.msg_ctr + 1

BatchDeleted ==
    (drain.pc = "process" /\ drain'.pc = "receive") => Range(drain.sqs_delete) \subseteq delreq'

C16_ProbeFailureAccepted ==
    [][/\ (Handled /\ ProbeFailed(result')) => NoStoreTouched /\ Accepted
       /\ BatchDeleted]_vars

C16_Witness ==
    /\ ProbeFailed(result) /\ result.head = "403"
    /\ ddbtable = NoItems /\ stattable = NoItems
    /\ ndeliv = 1
    /\ \E i \in delreq : queue[i].state = "deleted"

(***************************************************************************)
(* C17: an event that is not a PutObject, and a PutObject whose object has *)
(* no x-amz-replication-status header, are dropped quietly:                *)
(* message_handler returns without error and without touching a table, and *)
(* the drain loop takes the message as accepted and deletes it.            *)
(***************************************************************************)
NotPut(r) == r.rc /= "none" /\ r.ev.eventName /= "PutObject"
NoStatus(r) ==
    r.rc /= "none" /\ r.ev.eventName = "PutObject" /\ r.head = "200" /\ r.repstatus = "none"

C17_QuietIgnore ==
    [][/\ (Handled /\ (NotPut(result') \/ NoStatus(result'))) => NoStoreTouched /\ Accepted
       /\ (drain.pc = "process" /\ drain'.pc = "receive")
          => \A i \in Range(drain.sqs_delete) : i \in delreq']_vars

C17_Witness ==
    /\ ndeliv = 2
    /\ NoStatus(result)
    /\ \E i, j \in delreq :
         /\ queue[i].body.eventName /= "PutObject" /\ queue[i].state = "deleted"
         /\ queue[j].body.eventName = "PutObject" /\ queue[j].state = "deleted"
    /\ ddbtable = NoItems /\ stattable = NoItems

(***************************************************************************)
(* C18: when the source event and the replica event of a key are handled   *)
(* by two processes at the same time (both get_item before either          *)
(* update_item), nothing is lost: once both calls have ended and the       *)
(* record holds start_datetime and end_datetime, it also holds elapsed and *)
(* crr_rate, and a sample of the replication is in the statistics.         *)
(***************************************************************************)
C18_ConcurrentPairComplete ==
    \A k \in Keys :
        (/\ Reading = {}
         /\ Has(Record(k), "start_datetime") /\ Has(Record(k), "end_datetime"))
        => HasDerived(Record(k)) /\ CompletedSamples >= 1

(***************************************************************************)
(* C19: when two processes handle duplicate deliveries of the              *)
(* second-arriving event at the same time (both get_item before either     *)
(* update_item), the sample is added to the statistics once: a call that   *)
(* ends when the record already holds the derived fields adds no sample.   *)
(***************************************************************************)
C19_ConcurrentDuplicateOneSample ==
    [][(/\ Handled
        /\ result'.rc = "return"
        /\ HasDerived(Record(result'.ev.etag)))
       => CompletedSamplesNext = CompletedSamples]_vars

(***************************************************************************)
(* C21: in every reachable state a record that holds itemttl holds         *)
(* end_datetime, and itemttl is end_datetime minus purge_thresh hours;     *)
(* every replica call that updates the record sets s3Replica to its        *)
(* bucket, end_datetime to its eventTime and replication_status to         *)
(* COMPLETED, whatever the record held before.                             *)
(***************************************************************************)
C21_State ==
    \A k \in Keys :
        Has(Record(k), "itemttl") =>
            /\ Has(Record(k), "end_datetime")
            /\ Record(k).itemttl + purge_thresh * 60 * 60 = strptime(Record(k).end_datetime)

C21_ReplicaSets ==
    (Handled /\ IsReplicaCall(result') /\ result'.rc = "return") =>
        LET new == GetItem(ddbtable', result'.ev.etag)
        IN  /\ Has(new, "s3Replica") /\ new.s3Replica = result'.ev.bucket
            /\ Has(new, "end_datetime") /\ new.end_datetime = result'.ev.eventTime
            /\ Has(new, "replication_status") /\ new.replication_status = "COMPLETED"

C21_TtlWithEndTime == [](C21_State) /\ [][C21_ReplicaSets]_vars

C21_Witness ==
    /\ IsReplicaCall(result) /\ result.rc = "return"
    /\ Has(result.ddbitem, "replication_status")
    /\ result.ddbitem.replication_status = "FAILED"
    /\ Record(result.ev.etag).replication_status = "COMPLETED"
    /\ Has(Record(result.ev.etag), "itemttl")

(***************************************************************************)
(* C22: a source call on a record that already holds end_datetime (with or *)
(* without the derived fields) never changes replication_status from       *)
(* COMPLETED to FAILED and adds no sample to the bucket                    *)
(* source:FAILED:interval.                                                 *)
(***************************************************************************)
C22_NoFailedAfterReplica ==
    [][(/\ Handled
        /\ IsSourceCall(result')
        /\ Has(result'.ddbitem, "end_datetime"))
       => /\ ~(/\ Record(result'.ev.etag).replication_status = "COMPLETED"
               /\ GetItem(ddbtable', result'.ev.etag).replication_status = "FAILED")
          /\ StatOld(stattable', FailedBucket(result'.ev), "objects")
               = StatOld(stattable, FailedBucket(result'.ev), "objects")]_vars

(***************************************************************************)
(* C23: the elapsed a record holds is the signed difference                *)
(* end_datetime - start_datetime in seconds (negative when the replica     *)
(* eventTime precedes the source eventTime), the same whether the replica  *)
(* call or the source call computed it, and crr_rate is                    *)
(* ObjectSize * 8 / (elapsed + 1).                                         *)
(***************************************************************************)
ComputedBy(r) ==
    /\ r.rc = "return"
    /\ ~Has(r.ddbitem, "elapsed")
    /\ Has(Record(r.ev.etag), "elapsed")

C23_SignedElapsedAndRate ==
    \A k \in Keys :
        Has(Record(k), "elapsed") =>
            LET secs(t) == ((t[1] * 24 + t[2]) * 60 + t[3]) * 60 + t[4]
                diff == secs(obj[k].repTime) - secs(obj[k].srcTime)
            IN  /\ Record(k).elapsed = diff
                /\ Record(k).start_datetime = obj[k].srcTime
                /\ Record(k).end_datetime = obj[k].repTime
                /\ Record(k).crr_rate = <<obj[k].size * 8, diff + 1>>
                /\ diff + 1 /= 0

C23_Witness ==
    /\ IsSourceCall(result) /\ ComputedBy(result)
    /\ Record(result.ev.etag).elapsed = -442
    /\ Record(result.ev.etag).crr_rate = <<6400, -441>>

(***************************************************************************)
(* C24: the rate computation never divides by zero: whatever the           *)
(* eventTimes of the source and the replica event, a call of               *)
(* message_handler on an event with a known status, all of whose store     *)
(* calls succeed, does not raise.                                          *)
(***************************************************************************)
C24_NoDivisionByZero ==
    [][(/\ Handled
        /\ result'.oc = "ok"
        /\ result'.repstatus \in SourceStatuses \cup {"REPLICA", "none"})
       => result'.rc = "return"]_vars

(***************************************************************************)
(* C25: an invocation that read the queue depth calls invoke if and only   *)
(* if queue_sz - cnum * maxtask > maxtask and cnum < maxspawn; the payload *)
(* of the invoke is the event the invocation received, with only           *)
(* child-number changed, to cnum + 1.                                      *)
(***************************************************************************)
Invoked(w) == w.payload /= <<>>

SamePayloadNextIndex(w) ==
    /\ DOMAIN w.payload = DOMAIN w.event \cup {"child-number"}
    /\ \A f \in DOMAIN w.event \ {"child-number"} : w.payload[f] = w.event[f]
    /\ w.payload["child-number"] = w.cnum + 1

Children(inv) == {e \in inv : "child-number" \in DOMAIN e}

C26_Step ==
    /\ invoked' /= invoked =>
         /\ Len(workers') = Len(workers) + 1
         /\ workers'[Len(workers')].event \in invoked
         /\ invoked' \subseteq (invoked \ {workers'[Len(workers')].event})
                                  \cup {workers'[Len(workers')].payload}
    /\ Len(workers') = Len(workers) =>
         /\ invoked' = invoked
         /\ \A i \in DOMAIN workers :
               /\ workers'[i].payload = workers[i].payload
               /\ workers'[i].spawned = workers[i].spawned

C26_Chain ==
    /\ Cardinality(invoked) <= 1
    /\ nstarted <= maxspawn + 1
    /\ \A i \in DOMAIN workers :
          /\ workers[i].cnum = i - 1
          /\ Invoked(workers[i]) => ChildNumber(workers[i].payload) = workers[i].cnum + 1
          /\ workers[i].pc = "done" => \A e \in invoked : ChildNumber(e) > workers[i].cnum

C26_OneSpawnBeforeDrain == [](C26_Chain) /\ [][C26_Step]_vars

C26_Witness ==
    /\ nstarted = maxspawn + 1
    /\ invoked = {}
    /\ \A i \in DOMAIN workers : workers[i].pc = "done"
    /\ \A i \in 1..maxspawn : workers[i].spawned
    /\ workers[maxspawn + 1].queue_sz = 1000

(***************************************************************************)
(* C27: a delete_message_batch request names exactly the messages of the   *)
(* current batch that message_handler accepted: a message goes on          *)
(* sqs_delete in the step in which message_handler returns for it and in   *)
(* no other step, the request is made after the for loop with the whole of *)
(* sqs_delete, a message whose call raised is never named in a request,    *)
(* and only messages named in a request are deleted.                       *)
(***************************************************************************)
Current == drain.batch[drain.idx]
Processed == {drain.batch[j] : j \in 1..(drain.idx - 1)}

C27_State ==
    /\ drain.pc = "process" => Range(drain.sqs_delete) = Processed
    /\ \A i \in DOMAIN queue : queue[i].state = "deleted" => i \in delreq

C27_Step ==
    /\ Handled =>
         /\ delreq' = delreq
         /\ IF result'.rc = "return"
            THEN drain'.sqs_delete = Append(drain.sqs_delete, Current)
            ELSE /\ drain'.sqs_delete = drain.sqs_delete
                 /\ drain'.pc = "raised"
    /\ ~Handled /\ drain.pc = "process" =>
         /\ drain.idx > Len(drain.batch)
         /\ delreq' = delreq \cup Range(drain.sqs_delete)
         /\ Range(drain.sqs_delete) = Range(drain.batch)
    /\ drain.pc /= "process" => delreq' = delreq

C27_DeleteIffAccepted == [](C27_State) /\ [][C27_Step]_vars

C27_Witness ==
    /\ delreq = {1, 2}
    /\ drain.pc = "receive"
    /\ ndeliv = 2
    /\ queue[1].state = "deleted" /\ queue[2].state = "deleted"

(***************************************************************************)
(* C28: when delete_message_batch reports fewer Successful entries than it *)
(* was given, the loop neither repeats the delete nor stops: sqs_delete is *)
(* reset, the next step is the next receive_message, and the messages not  *)
(* deleted stay in the queue, to be received again after their visibility  *)
(* timeout.                                                                *)
(***************************************************************************)
DeleteResponse ==
    /\ drain.pc = "process" /\ drain.idx > Len(drain.batch)
    /\ drain.sqs_delete /= <<>>
    /\ drain'.pc /= "raised"

C28_Step ==
    DeleteResponse =>
        /\ drain'.pc = "receive"
        /\ drain'.sqs_delete = <<>> /\ drain'.batch = <<>>
        /\ drain'.msg_ctr = drain.msg_ctr
        /\ \A i \in Range(drain.sqs_delete) :
              queue'[i].state = "deleted" \/ queue'[i] = queue[i]

C28_State ==
    \A i \in DOMAIN queue :
        (i \in delreq /\ queue[i].state /= "deleted" /\ drain.pc = "receive")
        => queue[i].state \in {"inflight", "visible"}

C28_PartialDeleteContinues == [](C28_State) /\ [][C28_Step]_vars

C28_Witness ==
    /\ drain.pc = "process" /\ drain.idx = 1
    /\ Current \in delreq
    /\ queue[Current].state = "inflight"
    /\ \E j \in delreq : queue[j].state = "deleted"

(***************************************************************************)
(* C29: the while loop ends exactly on a receive_message response without  *)
(* messages; and when no handler raises and every delete succeeds, the     *)
(* invocation eventually ends with every message handled and deleted.      *)
(* As stated the second part fails: receive_message may answer without     *)
(* messages (or fail) while messages are visible, and the invocation then  *)
(* ends with the queue not empty.  It holds when, in addition, every       *)
(* receive_message succeeds and returns a message while one is visible.    *)
(***************************************************************************)
NoCallRaises == drain.pc /= "raised"
DeletesSucceed == \A i \in delreq : queue[i].state = "deleted"
ReceiveReturnsVisible == drain.pc \in {"report", "done"} => Visible = {}
Drained ==
    /\ drain.pc = "done"
    /\ delreq = DOMAIN queue
    /\ \A i \in DOMAIN queue : queue[i].state = "deleted"

C29_LoopEnds ==
    /\ drain'.pc = "report" /\ drain.pc /= "report" =>
          drain.pc = "receive" /\ queue' = queue
    /\ drain.pc = "receive" /\ drain'.pc = "process" => queue' /= queue
    /\ drain.pc = "receive" /\ queue' = queue /\ drain' /= drain =>
          drain'.pc \in {"report", "raised"}

C30_Step ==
    (applied' /= applied /\ call'.Dst /= "FAILED" /\ call'.oc = "ok") =>
        LET b == statbucket(call'.Src, "FAILED", timebucket(call'.Tstamp, call'.roundTo))
        IN  /\ b \in DOMAIN stattable'
            /\ stattable'[b].objects = StatOld(stattable, b, "objects")
            /\ stattable'[b].size = StatOld(stattable, b, "size")
            /\ stattable'[b].elapsed = StatOld(stattable, b, "elapsed")

C30_BootstrapZeroDelta == [][C30_Step]_vars

(***************************************************************************)
(* C31: within one process the update_item that initialises the bucket     *)
(* Src:FAILED:timebucket is made at most once for a timebucket, also when  *)
(* samples of other timebuckets were logged in between: when every call so *)
(* far was made by one process and that bucket already holds the size 1 of *)
(* its initialisation, a further non-FAILED sample of the timebucket by    *)
(* that process leaves the bucket as it is.  A FAILED sample never makes   *)
(* the initialising update_item.                                           *)
(***************************************************************************)
OnlyProc(p) == \A j \in applied : incs[j].proc = p

C31_Step ==
    (applied' /= applied /\ call'.oc = "ok" /\ OnlyProc(call'.proc)) =>
        LET b == statbucket(call'.Src, "FAILED", timebucket(call'.Tstamp, call'.roundTo))
        IN  IF call'.Dst = "FAILED"
            THEN stattable'[b].size = StatOld(stattable, b, "size")
            ELSE StatOld(stattable, b, "size") >= 1 => stattable'[b] = stattable[b]

C31_InitOncePerInterval == [][C31_Step]_vars

(***************************************************************************)
(* C32: the statistics bucket that gets the sample of a completed          *)
(* replication does not depend on which of the two events is merged        *)
(* second: when a call logs the sample of a pair, the call that would log  *)
(* it had the two events come in the other order names the same Src, the   *)
(* same Dst and a Tstamp of the same timebucket.                           *)
(***************************************************************************)
OtherOrder(r) ==
    LET size == obj[r.ev.etag].size
    IN  IF r.repstatus = "REPLICA"
        THEN Merge(Merge(NoItems, r.ev, "REPLICA", size).attrs,
                   SourceEvent(r.ev.etag), "COMPLETED", size)
        ELSE Merge(Merge(NoItems, r.ev, r.repstatus, size).attrs,
                   ReplicaEvent(r.ev.etag), "REPLICA", size)

LogsPairSample(r) ==
    /\ r.rc = "return" /\ r.oc = "ok"
    /\ r.ev.eventName = "PutObject" /\ r.head = "200" /\ r.repstatus /= "none"
    /\ LET m == Merge(r.ddbitem, r.ev, r.repstatus, obj[r.ev.etag].size)
       IN  m.stat /= <<>> /\ m.stat[1].Dst /= "FAILED"

C32_Step ==
    (Handled /\ LogsPairSample(result')) =>
        LET r == result'
            s == Merge(r.ddbitem, r.ev, r.repstatus, obj[r.ev.etag].size).stat[1]
            o == OtherOrder(r)
        IN  (~o.raises /\ o.stat /= <<>>) =>
               /\ o.stat[1].Src = s.Src /\ o.stat[1].Dst = s.Dst
               /\ timebucket(o.stat[1].Tstamp, StatRoundTo) = timebucket(s.Tstamp, StatRoundTo)

C32_SameBucketEitherOrder == [][C32_Step]_vars

(***************************************************************************)
(* C33: when queue_handler has ended, normally or by an exception, every   *)
(* message for which message_handler returned has been named in a          *)
(* delete_message_batch request: no message is left on sqs_delete.         *)
(***************************************************************************)
C33_AcceptedAlwaysDeleteRequested ==
    drain.pc \in {"raised", "done"} => Range(drain.sqs_delete) \subseteq delreq

(***************************************************************************)
(* C34: message_handler never deletes a record of the correlation table:   *)
(* whatever events are delivered, a key that is in the table stays in it   *)
(* and its record keeps every attribute it has (update_item names the      *)
(* attributes it sets and touches no other).                               *)
(***************************************************************************)
C34_Step ==
    \A k \in DOMAIN ddbtable :
        /\ k \in DOMAIN ddbtable'
        /\ DOMAIN ddbtable[k] \subseteq DOMAIN ddbtable'[k]

C34_KeysOnlyGrow == [][C34_Step]_vars

C34_Witness ==
    /\ ndeliv >= 3
    /\ \E k \in DOMAIN ddbtable :
         /\ Has(ddbtable[k], "crr_rate")
         /\ ddbtable[k].replication_status = "COMPLETED"
         /\ IsReplicaCall(result) /\ result.rc = "return" /\ Has(result.ddbitem, "crr_rate")

(***************************************************************************)
(* C35: the count queue_handler reports is the number of entries it gave   *)
(* to delete_message_batch over the whole loop: msg_ctr goes up by one     *)
(* exactly in the step in which message_handler returns for a message,     *)
(* between batches it equals the number of entries requested so far, and   *)
(* the count sent after the loop is that number.  As stated, with the      *)
(* count equal to the number of messages named in delete requests, it      *)
(* fails: a message whose delete did not succeed is received again,        *)
(* accepted again and counted again.  It holds of the entries requested,   *)
(* one for each time message_handler returned for a message.               *)
(***************************************************************************)
C35_AsStated ==
    metric /= <<>> => metric[1].msg_ctr = Cardinality(delreq)

C35_State ==
    /\ drain.pc = "process" => drain.msg_ctr = nreq + Len(drain.sqs_delete)
    /\ drain.pc \in {"receive", "report", "done"} => drain.msg_ctr = nreq
    /\ metric /= <<>> => metric[1].msg_ctr = nreq
    /\ Cardinality(delreq) <= nreq

C35_Step ==
    drain'.msg_ctr =
        IF Handled /\ result'.rc = "return" THEN drain.msg_ctr + 1 ELSE drain.msg_ctr

C35_CountIsDeleteRequests == [](C35_State) /\ [][C35_Step]_vars

C35_Witness ==
    /\ metric /= <<>>
    /\ metric[1].msg_ctr = 2 /\ nreq = 2
    /\ Cardinality(delreq) = 1

(***************************************************************************)
(* C36: an invocation whose get_queue_attributes response has a status     *)
(* other than 200 ends there: it invokes no child (nothing is added to the *)
(* pending invocations, no payload is built) and never reaches the drain   *)
(* loop, so it receives, handles and deletes no message.                   *)
(***************************************************************************)
C36_State ==
    \A i \in DOMAIN workers :
        workers[i].status /= 200 =>
            /\ workers[i].pc = "bad_status"
            /\ ~workers[i].spawned
            /\ workers[i].payload = <<>>

C36_Step ==
    (nstarted' = nstarted + 1 /\ workers'[Len(workers')].status /= 200) =>
        /\ invoked' \subseteq invoked
        /\ UNCHANGED <<queue, drain, delreq, nreq, ndeliv>>

C36_BadStatusEnds == [](C36_State) /\ [][C36_Step]_vars

C36_Witness ==
    \E i \in DOMAIN workers :
        /\ workers[i].status = 500
        /\ workers[i].cnum = 1
        /\ invoked = {}
        /\ \A j \in DOMAIN workers : j /= i => workers[j].pc = "done"

(***************************************************************************)
(* C38: the statbucket c the housekeeping job reads up to lies at least    *)
(* half a bucket width before the current time (c + roundTo/2 <= now), and *)
(* it is earlier than the timebucket log_statistics gives to now with the  *)
(* same width, so the bucket whose interval contains now does not pass the *)
(* filter 'timebucket <= c'; c is the bucket just before that one.         *)
(***************************************************************************)
C38_CutoffBeforeNow ==
    flush.pc = "cutoff" =>
        LET c == strptime(flush.statbucket)
            n == strptime(flush.now)
            b == timebucket(flush.now, flush.roundTo)
        IN  /\ 2 * c + flush.roundTo <= 2 * n
            /\ ~StrLessEq(b, flush.statbucket)
            /\ strptime(b) = c + flush.roundTo

C38_Witness ==
    /\ flush.pc = "cutoff"
    /\ flush.now = <<1, 0, 2, 30>> /\ flush.roundTo = 300
    /\ flush.statbucket = <<1, 0, 0, 0>>

(***************************************************************************)
(* C37: no increment is lost to the housekeeping run: for every bucket,    *)
(* the objects sent to CloudWatch for it and the objects the table still   *)
(* holds for it (which a later run will send) together are at least the    *)
(* samples log_statistics has added to it, also when a sample is added     *)
(* between the scan that read the bucket and the delete_item of            *)
(* post_stats.                                                             *)
(***************************************************************************)
RECURSIVE ObjectsSent(_, _)
ObjectsSent(b, n) ==
    IF n = 0 THEN 0
    ELSE ObjectsSent(b, n - 1) +
         (IF /\ cw[n].MetricName \in {"ReplicationObjects", "FailedReplications"}
             /\ statbucket(cw[n].SourceBucket, cw[n].DestBucket, cw[n].Timestamp) = b
          THEN cw[n].Value ELSE 0)

C37_NoIncrementLost ==
    \A i \in applied :
        LET b == BucketOf(incs[i])
        IN  ObjectsSent(b, Len(cw)) + StatOld(stattable, b, "objects")
               >= SumOver(b, applied, "objects")

(***************************************************************************)
(* C39: the hourly maintenance counts a failed record once: when           *)
(* process_items comes to a record that is already marked FAILED and whose *)
(* failure sample is in the bucket s3Origin:FAILED:timebucket, the         *)
(* statistics table is left as it is, on this and on every later run.      *)
(***************************************************************************)
SweepsItem == sweep.pc = "items" /\ sweep' /= sweep

C39_Step ==
    SweepsItem =>
        LET i == sweep.items[sweep.idx].item
            b == statbucket(i.s3Origin, "FAILED", timebucket(i.start_datetime, 300))
        IN  (/\ "replication_status" \in DOMAIN i /\ i.replication_status = "FAILED"
             /\ StatOld(stattable, b, "objects") >= 1)
            => StatOld(stattable', b, "objects") = StatOld(stattable, b, "objects")

C39_FailedCountedOnce == [][C39_Step]_vars

====
